---- MODULE Spec2Model ----
(***************************************************************************)
(* Model of the rpi-sim868 serial-port command broker                      *)
(* (src/src/serial_port.rs) and of the feature functions that use it.      *)
(*                                                                         *)
(* Spec      the task runner: concurrently spawned tasks, the priority     *)
(*           queue, the head-of-queue wait and the UART mutex.             *)
(* SpecRead  one SerialPort::write / read / process call in detail: the    *)
(*           UART input buffer, the modem's reply arriving in fragments,   *)
(*           the clock and the polling loop of uart_read.                  *)
(* SpecResolve  the resolvers as functions of the text handed to them.     *)
(* SpecFlow  the multi-step feature functions (SMS, GPRS init, HTTP        *)
(*           request) as sequences of broker calls made by one task.       *)
(* SpecLocks the task runner with the RwLock of the task queue in detail:  *)
(*           every acquisition and release of a queue guard is a step.     *)
(* SpecLive  Spec with a task function whose resolver can panic, and with  *)
(*           the fairness of the runtime that schedules the tasks.         *)
(***************************************************************************)
EXTENDS Integers, Sequences, FiniteSets

VARIABLES
    pc,         \* Spec: position of every task in spawn_task / its function
    kind,       \* Spec: the feature function a task was spawned with
    callIdx,    \* Spec: index of the broker call the task function is at
    result,     \* Spec: result of the task's last broker call / of its function
    queue,      \* Spec: SerialPort.queue, the heap array of the PriorityQueue
    uartLock,   \* Spec: SerialPort.uart mutex, its holder or NoTask
    polls,      \* Spec: iterations of the uart_read loop made by the holder
    rpc,        \* SpecRead: position inside the write / read / process call
    callType,   \* SpecRead: "write", "read" or "process"
    resolver,   \* SpecRead: the resolver handed to read / process
    timeout,    \* SpecRead: the timeout in force, in poll intervals
    rxBuf,      \* SpecRead: the UART input queue
    sent,       \* SpecRead: number of bytes the modem has sent so far
    readVec,    \* SpecRead: read_vec of the current loop iteration
    elapsed,    \* SpecRead: start.elapsed(), in poll intervals
    lastOutcome,\* SpecRead: what the resolver returned last, "none" before
    uartFailed, \* SpecRead: a UART operation of the call failed
    rresult,    \* SpecRead: what the call returned
    invoked,    \* SpecRead: number of resolver invocations of the call
    allRead,    \* SpecRead: ghost, every byte read so far in the call
    stale,      \* SpecRead: ghost, bytes at the head of rxBuf that were there
                \*           before the call started
    staleRead,  \* SpecRead: ghost, the call has read such a byte
    dropped,    \* SpecRead: ghost, such bytes discarded by the call's flush
    read,       \* SpecRead: read of the current loop iteration, the text
                \*           handed to the resolver
    ops,        \* SpecRead: the UART operations the call has made, in order
    rname,      \* SpecResolve: the resolver under examination
    input,      \* SpecResolve: the text handed to the resolver
    output,     \* SpecResolve: what the resolver returned, or that it panicked
    flow,       \* SpecFlow: the feature function the task runs
    req,        \* SpecFlow: the Request of an HTTP request
    fpc,        \* SpecFlow: the statement the function is at
    idx,        \* SpecFlow: position in the command list of a "for" loop
    cmds,       \* SpecFlow: the broker calls made so far, with their outcomes
    inner,      \* SpecFlow: what gprs::request returned to request_wrapper
    fresult,    \* SpecFlow: what the feature function returned
    toggles,    \* SpecFlow: power pulses driven on GPIO pin 4
    session,    \* SpecFlow: an HTTP session of the modem is open
    queueLock   \* SpecLocks: the RwLock of SerialPort.queue, its writer and
                \*            its readers

tvars == <<pc, kind, callIdx, result, queue, uartLock, polls>>
gvars == <<stale, staleRead, dropped, read>>
rvars == <<rpc, callType, resolver, timeout, rxBuf, sent, readVec, elapsed,
           lastOutcome, uartFailed, rresult, invoked, allRead, gvars, ops>>
pvars == <<rname, input, output>>
fvars == <<flow, req, fpc, idx, cmds, inner, fresult, toggles,
           session>>
lvars == <<queueLock>>
vars == <<tvars, rvars, pvars, fvars, lvars>>

\* What the actions of one specification leave alone.
notTask    == <<rvars, pvars, fvars, lvars>>
notRead    == <<tvars, pvars, fvars, lvars>>
notResolve == <<tvars, rvars, fvars, lvars>>
notFlow    == <<tvars, rvars, pvars, lvars>>
notLocks   == <<rvars, pvars, fvars>>

(***************************************************************************)
(* Bounds.                                                                 *)
(***************************************************************************)
NumTasks == 3       \* tasks spawned concurrently
MaxPolls == 2       \* poll iterations that fit into a call's timeout
MaxBytes == 3       \* bytes the modem sends in one behaviour of SpecRead
MaxTimeout == 1     \* largest explicit timeout of SpecRead, in poll intervals

Tasks  == 1..NumTasks
NoTask == 0

(***************************************************************************)
(* TaskPriority: NORMAL < HIGH (derive(PartialOrd, Ord) on the enum).      *)
(***************************************************************************)
NORMAL == 0
HIGH   == 1

(***************************************************************************)
(* The feature functions handed to spawn_task, with the priority their     *)
(* public method enqueues them with and the broker calls they make.        *)
(***************************************************************************)
Kinds == {"sms_send", "end_call", "turn_off", "get_incoming_call"}

\* Faulty variant: every task is enqueued with HIGH priority.
KindPriorityAllHigh(k) == HIGH
KindPriority(k) ==
    CASE k = "sms_send"          -> NORMAL
      [] k = "end_call"          -> HIGH
      [] k = "turn_off"          -> HIGH
      [] k = "get_incoming_call" -> NORMAL
      [] k = "network_strength"  -> NORMAL

\* The broker calls a function makes when every call succeeds.
KindCalls(k) ==
    CASE k = "sms_send"          -> <<"process", "process">>
      [] k = "end_call"          -> <<"process">>
      [] k = "turn_off"          -> <<"process", "write">>
      [] k = "get_incoming_call" -> <<"read">>
      [] k = "network_strength"  -> <<"process">>

\* The function's result when a broker call returned r and no call follows.
KindResult(k, i, r) ==
    IF k = "turn_off" /\ i = 1 /\ r = "NotResolved" THEN "HatAlreadyOff" ELSE r

(***************************************************************************)
(* priority_queue::PriorityQueue: a binary heap kept in an array; entries  *)
(* are [id, pri].  Positions are 1-based here (0-based in the crate).      *)
(***************************************************************************)
Swap(h, i, j) == [h EXCEPT ![i] = h[j], ![j] = h[i]]

\* bubble_up: move the entry at pos towards the root while its parent has a
\* strictly smaller priority.  Returns <<heap, final position>>.
RECURSIVE BubbleUp(_, _)
BubbleUp(h, pos) ==
    IF pos > 1 /\ h[pos \div 2].pri < h[pos].pri
    THEN BubbleUp(Swap(h, pos, pos \div 2), pos \div 2)
    ELSE <<h, pos>>

\* heapify: sift the entry at i down while a child has a strictly greater
\* priority (left child examined first).
RECURSIVE Heapify(_, _)
Heapify(h, i) ==
    LET n == Len(h)
        l == 2 * i
        r == 2 * i + 1
        viaL == IF l <= n /\ h[l].pri > h[i].pri THEN l ELSE i
        largest == IF l <= n /\ r <= n /\ h[r].pri > h[viaL].pri THEN r ELSE viaL
    IN  IF n <= 1 \/ largest = i THEN h ELSE Heapify(Swap(h, i, largest), largest)

\* Faulty variant of push: the new entry is appended and never bubbles up.
PushNoBubble(h, id, p) == Append(h, [id |-> id, pri |-> p])
\* PriorityQueue::push of a fresh id: append as the last leaf, then bubble_up.
Push(h, id, p) == BubbleUp(Append(h, [id |-> id, pri |-> p]), Len(h) + 1)[1]

PositionOf(h, id) == CHOOSE i \in 1..Len(h) : h[i].id = id
Contains(h, id) == \E i \in 1..Len(h) : h[i].id = id

\* Faulty variant of remove: the last slot is dropped, whoever is in it.
RemoveLast(h, id) ==
    IF ~Contains(h, id) THEN h ELSE SubSeq(h, 1, Len(h) - 1)
\* PriorityQueue::remove: swap_remove of the heap slot (the last entry takes
\* the hole), then up_heapify (bubble_up followed by heapify) at that slot.
Remove(h, id) ==
    IF ~Contains(h, id) THEN h
    ELSE LET pos  == PositionOf(h, id)
             n    == Len(h)
             hole == SubSeq([h EXCEPT ![pos] = h[n]], 1, n - 1)
         IN  IF pos < n
             THEN LET up == BubbleUp(hole, pos) IN Heapify(up[1], up[2])
             ELSE hole

\* PriorityQueue::peek: the root of the heap.
Peek(h) == h[1]

Ids(h) == {h[i].id : i \in 1..Len(h)}

(***************************************************************************)
(* State after SerialPort::new: nothing spawned, empty queue, free mutex.  *)
(***************************************************************************)
InitRead ==
    /\ rpc = "idle"
    /\ callType = "none"
    /\ resolver = "none"
    /\ timeout = 0
    /\ rxBuf = <<>>
    /\ sent = 0
    /\ readVec = <<>>
    /\ elapsed = 0
    /\ lastOutcome = "none"
    /\ uartFailed = FALSE
    /\ rresult = "none"
    /\ invoked = 0
    /\ allRead = <<>>
    /\ stale = 0
    /\ staleRead = FALSE
    /\ dropped = 0
    /\ read = <<>>
    /\ ops = <<>>

InitTasks ==
    /\ pc = [t \in Tasks |-> "idle"]
    /\ kind = [t \in Tasks |-> "none"]
    /\ callIdx = [t \in Tasks |-> 0]
    /\ result = [t \in Tasks |-> "none"]
    /\ queue = <<>>
    /\ uartLock = NoTask
    /\ polls = 0

\* No resolver is under examination.
InitResolveIdle ==
    /\ rname = "none"
    /\ input = <<>>
    /\ output = [kind |-> "none", val |-> 0]

\* No feature function has been started.
NoRequest == [method |-> "none", content_type |-> "None", headers |-> FALSE,
              urlOk |-> FALSE, dataOk |-> FALSE]
InitFlow ==
    /\ flow = "none"
    /\ req = NoRequest
    /\ fpc = "idle"
    /\ idx = 0
    /\ cmds = <<>>
    /\ inner = "none"
    /\ fresult = "none"
    /\ toggles = 0
    /\ session = FALSE

\* RwLock::new: no guard is alive.
InitLocks == queueLock = [writer |-> NoTask, readers |-> {}]

Init == InitTasks /\ InitRead /\ InitResolveIdle /\ InitFlow /\ InitLocks

(***************************************************************************)
(* spawn_task                                                              *)
(***************************************************************************)
\* Faulty variant: the task goes on to its wait without pushing its id.
AddToQueueUnpushed(t, k) ==
    /\ pc[t] = "idle"
    /\ \A u \in Tasks : u < t => pc[u] # "idle"
    /\ pc' = [pc EXCEPT ![t] = "wait"]
    /\ kind' = [kind EXCEPT ![t] = k]
    /\ UNCHANGED <<callIdx, result, queue, uartLock, polls>>
    /\ UNCHANGED notTask
\* A feature method spawns the task; its first step is add_to_queue.  The id
\* is a fresh Uuid; ids are named here by the order of their pushes, so a
\* smaller id was pushed earlier.
AddToQueue(t, k) ==
    /\ pc[t] = "idle"
    /\ \A u \in Tasks : u < t => pc[u] # "idle"
    /\ pc' = [pc EXCEPT ![t] = "wait"]
    /\ kind' = [kind EXCEPT ![t] = k]
    /\ queue' = Push(queue, t, KindPriority(k))
    /\ UNCHANGED <<callIdx, result, uartLock, polls>>
    /\ UNCHANGED notTask

\* await_in_queue: one peek that finds the task at the head; a peek that finds
\* another id sleeps 100 ms and peeks again, which changes nothing.
AwaitInQueue(t) ==
    /\ pc[t] = "wait"
    /\ queue # <<>>
    /\ Peek(queue).id = t
    /\ pc' = [pc EXCEPT ![t] = "call"]
    /\ callIdx' = [callIdx EXCEPT ![t] = 1]
    /\ UNCHANGED <<kind, result, queue, uartLock, polls>>
    /\ UNCHANGED notTask

\* Faulty variant: the task ends without removing its id.
RemoveFromQueueSkipped(t) ==
    /\ pc[t] = "remove"
    /\ pc' = [pc EXCEPT ![t] = "done"]
    /\ UNCHANGED <<kind, callIdx, result, queue, uartLock, polls>>
    /\ UNCHANGED notTask
\* remove_from_queue, after task_fn returned; the result goes to the handle.
RemoveFromQueue(t) ==
    /\ pc[t] = "remove"
    /\ queue' = Remove(queue, t)
    /\ pc' = [pc EXCEPT ![t] = "done"]
    /\ UNCHANGED <<kind, callIdx, result, uartLock, polls>>
    /\ UNCHANGED notTask

(***************************************************************************)
(* SerialPort::write / read / process, as called by the task functions.    *)
(***************************************************************************)
CallType(t) == KindCalls(kind[t])[callIdx[t]]

\* Faulty variant of the mutex: lock() never blocks.
UartLockFreeAlways == TRUE
\* self.uart.lock(): std::sync::Mutex blocks while another guard is alive.
UartLockFree == uartLock = NoTask

\* Faulty variant: a function that returns Err ends the task at once.
ReturnToEndsOnErr(t, r) ==
    IF r = "Ok" /\ callIdx[t] < Len(KindCalls(kind[t]))
    THEN /\ pc' = [pc EXCEPT ![t] = "call"]
         /\ callIdx' = [callIdx EXCEPT ![t] = @ + 1]
         /\ result' = result
    ELSE /\ pc' = [pc EXCEPT ![t] = IF r = "Ok" THEN "remove" ELSE "done"]
         /\ callIdx' = callIdx
         /\ result' = [result EXCEPT ![t] = KindResult(kind[t], callIdx[t], r)]
\* The call returns r to the task function, which makes its next call after
\* Ok and returns otherwise ("?", "match").
ReturnTo(t, r) ==
    IF r = "Ok" /\ callIdx[t] < Len(KindCalls(kind[t]))
    THEN /\ pc' = [pc EXCEPT ![t] = "call"]
         /\ callIdx' = [callIdx EXCEPT ![t] = @ + 1]
         /\ result' = result
    ELSE /\ pc' = [pc EXCEPT ![t] = "remove"]
         /\ callIdx' = callIdx
         /\ result' = [result EXCEPT ![t] = KindResult(kind[t], callIdx[t], r)]

\* Every exit of write / read / process drops the MutexGuard.
Exit(t, r) ==
    /\ ReturnTo(t, r)
    /\ uartLock' = NoTask
    /\ polls' = 0

\* Entry of write / read / process: take the UART mutex.
Lock(t) ==
    /\ pc[t] = "call"
    /\ UartLockFree
    /\ uartLock' = t
    /\ polls' = 0
    /\ pc' = [pc EXCEPT ![t] = IF CallType(t) = "read" THEN "poll" ELSE "flush"]
    /\ UNCHANGED <<kind, callIdx, result, queue>>
    /\ UNCHANGED notTask

\* uart.flush(Queue::Input) of write, uart.flush(Queue::Both) of process.
FlushOk(t) ==
    /\ pc[t] = "flush"
    /\ pc' = [pc EXCEPT ![t] = "write"]
    /\ UNCHANGED <<kind, callIdx, result, queue, uartLock, polls>>
    /\ UNCHANGED notTask

\* Faulty variant of the early return: the mutex stays locked.
FlushFailKeepLock(t) ==
    /\ pc[t] = "flush"
    /\ ReturnTo(t, "Uart")
    /\ UNCHANGED <<kind, queue, uartLock, polls>>
    /\ UNCHANGED notTask
\* The flush fails: "?" returns Err(Uart) at once.
FlushFail(t) ==
    /\ pc[t] = "flush"
    /\ Exit(t, "Uart")
    /\ UNCHANGED <<kind, queue>>
    /\ UNCHANGED notTask

\* uart.write(input.as_bytes()): write returns Ok(()), process goes on to
\* uart_read.
WriteOk(t) ==
    /\ pc[t] = "write"
    /\ IF CallType(t) = "write"
       THEN Exit(t, "Ok")
       ELSE /\ pc' = [pc EXCEPT ![t] = "poll"]
            /\ UNCHANGED <<callIdx, result, uartLock, polls>>
    /\ UNCHANGED <<kind, queue>>
    /\ UNCHANGED notTask

\* The write fails: "?" returns Err(Uart) at once.
WriteFail(t) ==
    /\ pc[t] = "write"
    /\ Exit(t, "Uart")
    /\ UNCHANGED <<kind, queue>>
    /\ UNCHANGED notTask

\* One iteration of the uart_read loop, entered while elapsed <= timeout: the
\* resolver answers NotResolved and the loop goes round.
PollNotResolved(t) ==
    /\ pc[t] = "poll"
    /\ polls < MaxPolls
    /\ polls' = polls + 1
    /\ UNCHANGED <<pc, kind, callIdx, result, queue, uartLock>>
    /\ UNCHANGED notTask

\* One iteration that ends the call: uart.read fails ("Uart"), the resolver
\* answers Ok, or it answers an error other than NotResolved ("Feature").
PollEnd(t, r) ==
    /\ pc[t] = "poll"
    /\ polls < MaxPolls
    /\ Exit(t, r)
    /\ UNCHANGED <<kind, queue>>
    /\ UNCHANGED notTask

\* The loop condition fails: elapsed > timeout, uart_read returns NotResolved.
PollTimeout(t) ==
    /\ pc[t] = "poll"
    /\ polls = MaxPolls
    /\ Exit(t, "NotResolved")
    /\ UNCHANGED <<kind, queue>>
    /\ UNCHANGED notTask

Next ==
    \E t \in Tasks :
        \/ \E k \in Kinds : AddToQueue(t, k)
        \/ AwaitInQueue(t)
        \/ RemoveFromQueue(t)
        \/ Lock(t)
        \/ FlushOk(t)
        \/ FlushFail(t)
        \/ WriteOk(t)
        \/ WriteFail(t)
        \/ PollNotResolved(t)
        \/ \E r \in {"Ok", "Feature", "Uart"} : PollEnd(t, r)
        \/ PollTimeout(t)

Spec == Init /\ [][Next]_vars


(***************************************************************************)
(* One write / read / process call in detail (SpecRead).                   *)
(*                                                                         *)
(* Text is a sequence of tokens: "CRLF" (\r\n), "OK", "ERROR", and "BAD",  *)
(* a byte that is not valid UTF-8.  Time is counted in poll intervals: the *)
(* read timeout of 100 ms set by set_read_mode(0, 100 ms).                 *)
(***************************************************************************)
Bytes == {"CRLF", "OK", "ERROR", "BAD"}

\* Regex::is_match of a literal pattern: the text contains it.
IsMatch(pat, text) ==
    \E i \in 1..Len(text) :
        /\ i + Len(pat) - 1 <= Len(text)
        /\ SubSeq(text, i, i + Len(pat) - 1) = pat

ACK_REGEX   == <<"CRLF", "OK", "CRLF">>
ERROR_REGEX == <<"CRLF", "ERROR", "CRLF">>

ack_check(text)   == IsMatch(ACK_REGEX, text)
error_check(text) == IsMatch(ERROR_REGEX, text)

\* Faulty variant: the acknowledgement is looked for first.
generic_resolver_ack_first(text) ==
    IF ack_check(text) THEN "Ok"
    ELSE IF error_check(text) THEN "Feature" ELSE "NotResolved"
\* generic_resolver(result, err), err being the caller's feature error.
generic_resolver(text) ==
    IF error_check(text) THEN "Feature"
    ELSE IF ack_check(text) THEN "Ok" ELSE "NotResolved"

\* The resolver of hat::is_on: Ok(true) on the ack, NotResolved otherwise.
is_on_resolver(text) ==
    IF ack_check(text) THEN "Ok" ELSE "NotResolved"

Resolvers == {"generic", "is_on"}

Resolve(rs, text) ==
    IF rs = "generic" THEN generic_resolver(text) ELSE is_on_resolver(text)

\* Faulty variant of the decoding: the bytes are taken as they are.
FromUtf8Unchecked(bytes) == bytes
\* String::from_utf8(read_vec).unwrap_or(""): the empty string when any byte
\* of the vector is invalid.
FromUtf8(bytes) ==
    IF \E i \in 1..Len(bytes) : bytes[i] = "BAD" THEN <<>> ELSE bytes

\* timeout.unwrap_or(Duration::from_millis(1000)); 0 stands for None.
DefaultTimeout == 10
TimeoutOf(arg) == IF arg = 0 THEN DefaultTimeout ELSE arg

\* The call makes the UART operation o; a run of uart.read calls is entered
\* once.
Op(o) ==
    ops' = IF ops # <<>> /\ ops[Len(ops)] = o THEN ops ELSE Append(ops, o)

\* The argument of uart.flush: Queue::Input in write, Queue::Both in process.
FlushQueue == IF callType = "write" THEN "flush(Input)" ELSE "flush(Both)"

\* The modem puts a byte on the line; it lands in the UART input queue.
ModemSend(b) ==
    /\ rpc # "done"
    /\ sent < MaxBytes
    /\ sent' = sent + 1
    /\ rxBuf' = Append(rxBuf, b)
    /\ UNCHANGED <<rpc, callType, resolver, timeout, readVec, elapsed,
                   lastOutcome, uartFailed, rresult, invoked, allRead>>
    /\ UNCHANGED gvars
    /\ UNCHANGED ops
    /\ UNCHANGED notRead

\* Faulty variant: read flushes and writes as process does.
StartCallReadFlushes(ct, rs, arg) ==
    /\ rpc = "idle"
    /\ callType' = ct
    /\ resolver' = IF ct = "write" THEN "none" ELSE rs
    /\ timeout' = IF ct = "write" THEN 0 ELSE TimeoutOf(arg)
    /\ rpc' = "flush"
    /\ UNCHANGED <<rxBuf, sent, readVec, elapsed, lastOutcome, uartFailed,
                   rresult, invoked, allRead>>
    /\ stale' = Len(rxBuf)
    /\ UNCHANGED <<staleRead, dropped, read>>
    /\ UNCHANGED ops
    /\ UNCHANGED notRead
\* A task function calls write(cmd), read(resolver, timeout) or
\* process(cmd, resolver, timeout).
StartCall(ct, rs, arg) ==
    /\ rpc = "idle"
    /\ callType' = ct
    /\ resolver' = IF ct = "write" THEN "none" ELSE rs
    /\ timeout' = IF ct = "write" THEN 0 ELSE TimeoutOf(arg)
    /\ rpc' = IF ct = "read" THEN "loop" ELSE "flush"
    /\ UNCHANGED <<rxBuf, sent, readVec, elapsed, lastOutcome, uartFailed,
                   rresult, invoked, allRead>>
    /\ stale' = Len(rxBuf)
    /\ UNCHANGED <<staleRead, dropped, read>>
    /\ UNCHANGED ops
    /\ UNCHANGED notRead

\* The call returns r.
Finish(r) ==
    /\ rpc' = "done"
    /\ rresult' = r

\* Faulty variant of the flush: the input queue is left as it is.
UartFlushKeepsInput ==
    /\ rpc = "flush"
    /\ rpc' = "write"
    /\ UNCHANGED <<callType, resolver, timeout, rxBuf, sent, readVec, elapsed,
                   lastOutcome, uartFailed, rresult, invoked, allRead>>
    /\ UNCHANGED gvars
    /\ Op(FlushQueue)
    /\ UNCHANGED notRead
\* uart.flush(Queue::Input) in write, uart.flush(Queue::Both) in process: the
\* input queue is discarded.
UartFlushOk ==
    /\ rpc = "flush"
    /\ rxBuf' = <<>>
    /\ rpc' = "write"
    /\ UNCHANGED <<callType, resolver, timeout, sent, readVec, elapsed,
                   lastOutcome, uartFailed, rresult, invoked, allRead>>
    /\ dropped' = stale
    /\ stale' = 0
    /\ UNCHANGED <<staleRead, read>>
    /\ Op(FlushQueue)
    /\ UNCHANGED notRead

UartFlushFail ==
    /\ rpc = "flush"
    /\ Finish("Uart")
    /\ uartFailed' = TRUE
    /\ UNCHANGED <<callType, resolver, timeout, rxBuf, sent, readVec, elapsed,
                   lastOutcome, invoked, allRead>>
    /\ UNCHANGED gvars
    /\ Op(FlushQueue)
    /\ UNCHANGED notRead

\* Faulty variant: write goes on to uart_read as process does.
UartWriteOkThenPoll ==
    /\ rpc = "write"
    /\ rpc' = "loop" /\ rresult' = rresult
    /\ UNCHANGED <<callType, resolver, timeout, rxBuf, sent, readVec, elapsed,
                   lastOutcome, uartFailed, invoked, allRead>>
    /\ UNCHANGED gvars
    /\ Op("write")
    /\ UNCHANGED notRead
\* uart.write(input.as_bytes()): write is finished, process starts uart_read.
UartWriteOk ==
    /\ rpc = "write"
    /\ IF callType = "write"
       THEN Finish("Ok")
       ELSE rpc' = "loop" /\ rresult' = rresult
    /\ UNCHANGED <<callType, resolver, timeout, rxBuf, sent, readVec, elapsed,
                   lastOutcome, uartFailed, invoked, allRead>>
    /\ UNCHANGED gvars
    /\ Op("write")
    /\ UNCHANGED notRead

\* Faulty variant: the error of the write is dropped and the call goes on.
UartWriteFailIgnored ==
    /\ rpc = "write"
    /\ rpc' = "loop" /\ rresult' = rresult
    /\ uartFailed' = TRUE
    /\ UNCHANGED <<callType, resolver, timeout, rxBuf, sent, readVec, elapsed,
                   lastOutcome, invoked, allRead>>
    /\ UNCHANGED gvars
    /\ Op("write")
    /\ UNCHANGED notRead
\* The write fails: "?" returns Err(Uart) at once.
UartWriteFail ==
    /\ rpc = "write"
    /\ Finish("Uart")
    /\ uartFailed' = TRUE
    /\ UNCHANGED <<callType, resolver, timeout, rxBuf, sent, readVec, elapsed,
                   lastOutcome, invoked, allRead>>
    /\ UNCHANGED gvars
    /\ Op("write")
    /\ UNCHANGED notRead

\* while start.elapsed() <= timeout: a new iteration starts with an empty
\* read_vec; otherwise the loop is left with data = None and error = None and
\* uart_read returns Err(NotResolved).
LoopCheck ==
    /\ rpc = "loop"
    /\ IF elapsed <= timeout
       THEN /\ rpc' = "read"
            /\ readVec' = <<>>
            /\ read' = <<>>
            /\ rresult' = rresult
       ELSE /\ Finish("NotResolved")
            /\ readVec' = readVec
            /\ read' = read
    /\ UNCHANGED <<callType, resolver, timeout, rxBuf, sent, elapsed,
                   lastOutcome, uartFailed, invoked, allRead>>
    /\ UNCHANGED <<stale, staleRead, dropped>>
    /\ UNCHANGED ops
    /\ UNCHANGED notRead

\* uart.read(&mut read_buffer) > 0 with a byte already in the input queue.
UartReadByte ==
    /\ rpc = "read"
    /\ rxBuf # <<>>
    /\ readVec' = Append(readVec, Head(rxBuf))
    /\ allRead' = Append(allRead, Head(rxBuf))
    /\ rxBuf' = Tail(rxBuf)
    /\ UNCHANGED <<rpc, callType, resolver, timeout, sent, elapsed,
                   lastOutcome, uartFailed, rresult, invoked>>
    /\ stale' = IF stale > 0 THEN stale - 1 ELSE 0
    /\ staleRead' = (staleRead \/ stale > 0)
    /\ UNCHANGED <<dropped, read>>
    /\ Op("read")
    /\ UNCHANGED notRead

\* uart.read(&mut read_buffer) > 0 on an empty input queue: the read blocks
\* and the byte arrives before the 100 ms read timeout runs out.
UartReadByteLate(b) ==
    /\ rpc = "read"
    /\ rxBuf = <<>>
    /\ sent < MaxBytes
    /\ sent' = sent + 1
    /\ readVec' = Append(readVec, b)
    /\ allRead' = Append(allRead, b)
    /\ elapsed' = elapsed + 1
    /\ UNCHANGED <<rpc, callType, resolver, timeout, rxBuf, lastOutcome,
                   uartFailed, rresult, invoked>>
    /\ UNCHANGED gvars
    /\ Op("read")
    /\ UNCHANGED notRead

\* uart.read(&mut read_buffer) = 0: no byte within the read timeout; the
\* inner loop ends.
UartReadNone ==
    /\ rpc = "read"
    /\ rxBuf = <<>>
    /\ elapsed' = elapsed + 1
    /\ rpc' = "resolve"
    /\ UNCHANGED <<callType, resolver, timeout, rxBuf, sent, readVec,
                   lastOutcome, uartFailed, rresult, invoked, allRead>>
    /\ UNCHANGED gvars
    /\ Op("read")
    /\ UNCHANGED notRead

\* uart.read fails: "?" returns Err(Uart) from uart_read at once.
UartReadFail ==
    /\ rpc = "read"
    /\ Finish("Uart")
    /\ uartFailed' = TRUE
    /\ UNCHANGED <<callType, resolver, timeout, rxBuf, sent, readVec, elapsed,
                   lastOutcome, invoked, allRead>>
    /\ UNCHANGED gvars
    /\ Op("read")
    /\ UNCHANGED notRead

\* Faulty variant of the match: NotResolved breaks the loop like any error.
AfterOutcomeBreakOnAnyErr(o) == "done"
\* match resolver(read): Ok and every error but NotResolved break the loop,
\* NotResolved goes round.
AfterOutcome(o) == IF o = "NotResolved" THEN "loop" ELSE "done"

\* resolver(read), read being the decoded read_vec, and the match on it.
InvokeResolver ==
    /\ rpc = "resolve"
    /\ LET o == Resolve(resolver, FromUtf8(readVec))
       IN  /\ lastOutcome' = o
           /\ invoked' = invoked + 1
           /\ rpc' = AfterOutcome(o)
           /\ rresult' = IF AfterOutcome(o) = "done" THEN o ELSE rresult
    /\ UNCHANGED <<callType, resolver, timeout, rxBuf, sent, readVec, elapsed,
                   uartFailed, allRead>>
    /\ read' = FromUtf8(readVec)
    /\ UNCHANGED <<stale, staleRead, dropped>>
    /\ UNCHANGED ops
    /\ UNCHANGED notRead

NextRead ==
    \/ \E b \in Bytes : ModemSend(b)
    \/ \E ct \in {"write", "read", "process"}, rs \in Resolvers,
          arg \in 0..MaxTimeout : StartCall(ct, rs, arg)
    \/ UartFlushOk
    \/ UartFlushFail
    \/ UartWriteOk
    \/ UartWriteFail
    \/ LoopCheck
    \/ UartReadByte
    \/ \E b \in Bytes : UartReadByteLate(b)
    \/ UartReadNone
    \/ UartReadFail
    \/ InvokeResolver

SpecRead == Init /\ [][NextRead]_vars


(***************************************************************************)
(* Properties of the task runner and the UART mutex (Spec).                *)
(***************************************************************************)
\* The task is inside write / read / process, between lock() and the return.
InCall(t) == pc[t] \in {"flush", "write", "poll"}

\* The task's function is running: from the end of await_in_queue to the
\* return of task_fn.
Executing(t) == pc[t] \in {"call", "flush", "write", "poll"}

\* The task's function has made its first broker call and has not returned.
MidFunction(t) == Executing(t) /\ (InCall(t) \/ callIdx[t] > 1)

PriorityOf(t) == KindPriority(kind[t])

\* C1: in every reachable state at most one task is inside write, read or
\* process, whatever the number and the priorities of the tasks.
C1_UartMutualExclusion ==
    \A t \in Tasks : InCall(t) => \A u \in Tasks : InCall(u) => t = u

\* C1 happens: one task is inside a call while another task, its function
\* running too, stands before lock().
C1_Witness ==
    \E t, u \in Tasks : t # u /\ InCall(t) /\ pc[u] = "call"

\* C2: once a task has made the first broker call of its function, no other
\* task is inside a broker call until that function has returned.
C2_SequencesAtomic ==
    \A t, u \in Tasks : (t # u /\ MidFunction(t)) => ~InCall(u)

\* C3: whenever a task invokes process, write or read, its id is the head
\* (peek) of the task queue.
C3_HeadAtBrokerCall ==
    [][\A t \in Tasks :
          (pc[t] = "call" /\ InCall(t)') => Peek(queue).id = t]_vars

\* C4: whenever a task leaves the head-of-queue wait and begins its function,
\* no entry of the queue has a strictly greater priority than it has.
C4_DispatchMaxPriority ==
    [][\A t \in Tasks :
          (pc[t] = "wait" /\ Executing(t)') =>
              \A i \in 1..Len(queue) : queue[i].pri <= PriorityOf(t)]_vars

\* C4 happens: a HIGH task pushed after a NORMAL one has begun its function
\* while the NORMAL one is still waiting.
C4_Witness ==
    \E h, n \in Tasks :
        /\ n < h
        /\ pc[n] = "wait" /\ PriorityOf(n) = NORMAL
        /\ Executing(h) /\ PriorityOf(h) = HIGH

\* The earliest-pushed entry among those of the greatest priority (ids are
\* named by push order).
EarliestOfGreatest(h) ==
    CHOOSE id \in Ids(h) :
        LET p == (CHOOSE i \in 1..Len(h) : h[i].id = id)
        IN  /\ \A j \in 1..Len(h) : h[j].pri <= h[p].pri
            /\ \A j \in 1..Len(h) : h[j].pri = h[p].pri => id <= h[j].id

\* C5: after any sequence of pushes and removes, peek returns the
\* earliest-pushed entry among those with the greatest priority.
C5_PeekFifo ==
    queue # <<>> => Peek(queue).id = EarliestOfGreatest(queue)

\* C6: a HIGH task never runs its function while a NORMAL task is running
\* its own (the NORMAL one completes first), and NORMAL tasks begin their
\* functions in the order of their pushes.
C6_Preemption ==
    /\ \A h, n \in Tasks :
           (kind[h] # "none" /\ kind[n] # "none"
              /\ PriorityOf(h) = HIGH /\ PriorityOf(n) = NORMAL)
               => ~(Executing(h) /\ Executing(n))
    /\ \A m, n \in Tasks :
           (m < n /\ kind[m] # "none" /\ kind[n] # "none"
              /\ PriorityOf(m) = NORMAL /\ PriorityOf(n) = NORMAL)
               => (pc[n] \in {"idle", "wait"} \/ pc[m] # "wait")

\* C10: the UART lock is held only by a task that is inside write, read or
\* process; once the call has returned, on any exit path, the lock is free.
C10_LockFreeAfterReturn ==
    uartLock # NoTask => InCall(uartLock)

\* C10 happens: calls have returned with a UART failure, with the timeout
\* and with a resolver outcome, and the lock is free.
C10_Witness ==
    /\ uartLock = NoTask
    /\ \E t, u, v \in Tasks :
           /\ pc[t] \in {"remove", "done"} /\ result[t] = "Uart"
           /\ pc[u] \in {"remove", "done"} /\ result[u] = "NotResolved"
           /\ pc[v] \in {"remove", "done"} /\ result[v] \in {"Ok", "Feature"}

(***************************************************************************)
(* Properties of one read / process call (SpecRead).                       *)
(***************************************************************************)
\* C7: the resolver works on the accumulated text of the call, so a call
\* does not end NotResolved when the text of all bytes it has read is one
\* the resolver resolves.
C7_AccumulatedText ==
    (rpc = "done" /\ rresult = "NotResolved")
        => Resolve(resolver, FromUtf8(allRead)) = "NotResolved"

\* C8: a success value or an error other than NotResolved from the resolver
\* ends the call at once with that outcome, a UART failure ends it with the
\* Uart error, and NotResolved never ends it before the timeout has elapsed.
C8_LoopOutcomes ==
    /\ lastOutcome \in {"Ok", "Feature"} => (rpc = "done" /\ rresult = lastOutcome)
    /\ uartFailed => (rpc = "done" /\ rresult = "Uart")
    /\ (rpc = "done" /\ rresult = "NotResolved")
           => (elapsed > timeout /\ lastOutcome \in {"none", "NotResolved"})
    /\ (rpc = "done" /\ callType # "write" /\ ~uartFailed)
           => rresult \in {"Ok", "Feature", "NotResolved"}

\* C8 happens: the resolver answered NotResolved, was polled again and then
\* ended the call with a feature error.
C8_Witness ==
    rpc = "done" /\ rresult = "Feature" /\ invoked >= 2

\* C9: when the resolver answers NotResolved on every invocation, the call
\* returns NotResolved after the timeout and at most one poll interval late.
C9_TimeoutBound ==
    (rpc = "done" /\ callType # "write" /\ ~uartFailed
       /\ lastOutcome \in {"none", "NotResolved"})
        => (rresult = "NotResolved" /\ elapsed > timeout /\ elapsed <= timeout + 1)

(***************************************************************************)
(* The resolvers as functions of the text handed to them (SpecResolve).    *)
(* A text is a sequence of tokens: "CRLF" is "\r\n", "OK" and "ERROR" are  *)
(* the words, a token like "+CSQ: " is the prefix of a response line, "0", *)
(* "1", "3" are digits, "," is the comma and "x" is any other character.   *)
(***************************************************************************)
MaxText == 5        \* tokens in a text handed to a resolver

Digits == {"0", "1", "3"}
DigitVal(c) == CASE c = "0" -> 0 [] c = "1" -> 1 [] c = "3" -> 3

\* ResolverReturn<T>: Ok(v), Err(e), or no return at all when the resolver
\* panics ("expect", "unwrap", an index or a slice out of range).
Ok(v)  == [kind |-> "Ok", val |-> v]
Err(e) == [kind |-> e, val |-> 0]
Panic  == [kind |-> "panic", val |-> 0]

\* The leftmost of the positions at which a pattern matches, 0 when it
\* matches nowhere.
Leftmost(positions) ==
    IF positions = {} THEN 0
    ELSE CHOOSE i \in positions : \A j \in positions : i <= j

\* \d*: the longest run of digits at the start of s.
RECURSIVE DigitRun(_)
DigitRun(s) ==
    IF s = <<>> \/ Head(s) \notin Digits
    THEN <<>>
    ELSE <<Head(s)>> \o DigitRun(Tail(s))

\* .+ after a prefix at position i: "." is every character but "\n", so the
\* capture runs to the end of the line and takes the "\r" of a "\r\n" with it.
RestOfLine(text, i) ==
    LET rest == SubSeq(text, i + 1, Len(text))
        e == Leftmost({j \in 1..Len(rest) : rest[j] = "CRLF"})
    IN  IF e = 0 THEN rest ELSE Append(SubSeq(rest, 1, e - 1), "CR")

\* str::split(","): one field more than there are commas.
RECURSIVE Split(_)
Split(s) ==
    LET c == Leftmost({j \in 1..Len(s) : s[j] = ","})
    IN  IF c = 0
        THEN <<s>>
        ELSE <<SubSeq(s, 1, c - 1)>> \o Split(SubSeq(s, c + 1, Len(s)))

\* The number a string of digits denotes.
RECURSIVE NumVal(_)
NumVal(f) ==
    IF f = <<>> THEN 0
    ELSE 10 * NumVal(SubSeq(f, 1, Len(f) - 1)) + DigitVal(f[Len(f)])

IsNumber(f) == f # <<>> /\ \A i \in 1..Len(f) : f[i] \in Digits

\* str::parse::<u8>() is Ok: a non-empty string of digits, at most u8::MAX.
U8Max == 255
ParsesU8(f) == IsNumber(f) /\ NumVal(f) <= U8Max

\* str::parse::<f32>() is Ok (of the strings these tokens spell).
ParsesF32(f) == IsNumber(f)

\* Utc.with_ymd_and_hms(..) is a single date and time: the fields cut out of
\* data[2] ("yyyyMMddhhmmss.sss") by byte ranges parse and name a real day.
DaysIn(y, m) ==
    IF m = 2
    THEN IF (y % 4 = 0 /\ y % 100 # 0) \/ y % 400 = 0 THEN 29 ELSE 28
    ELSE IF m \in {4, 6, 9, 11} THEN 30 ELSE 31
DateOk(f) ==
    /\ Len(f) >= 14
    /\ \A i \in 1..14 : f[i] \in Digits
    /\ LET year    == NumVal(SubSeq(f, 1, 4))
           month   == NumVal(SubSeq(f, 5, 6))
           day     == NumVal(SubSeq(f, 7, 8))
           hour    == NumVal(SubSeq(f, 9, 10))
           minutes == NumVal(SubSeq(f, 11, 12))
           seconds == NumVal(SubSeq(f, 13, 14))
       IN  /\ month \in 1..12
           /\ day \in 1..DaysIn(year, month)
           /\ hour <= 23 /\ minutes <= 59 /\ seconds <= 59

\* gnss::get_data::resolver.
get_data_resolver(text) ==
    LET m == Leftmost({i \in 1..Len(text) : text[i] = "+CGNSINF: " /\ i < Len(text)})
    IN  IF m = 0 THEN Err("NotResolved")
        ELSE LET data == Split(RestOfLine(text, m))
             IN  IF ~ParsesU8(data[1]) THEN Panic
                 ELSE IF NumVal(data[1]) = 0 THEN Err("GnssModuleOff")
                 ELSE IF Len(data) < 2 \/ ~ParsesU8(data[2]) THEN Panic
                 ELSE IF NumVal(data[2]) = 0 THEN Err("GnssNotFixed")
                 ELSE IF Len(data) < 3 \/ ~DateOk(data[3]) THEN Panic
                 ELSE IF \/ Len(data) < 16
                         \/ \E k \in 4..8 : ~ParsesF32(data[k])
                         \/ ~ParsesU8(data[15])
                         \/ ~ParsesU8(data[16])
                      THEN Panic
                      ELSE Ok(0)

\* gnss::is_on::resolver: \d is exactly one digit, so the parse cannot fail.
gnss_is_on_resolver(text) ==
    LET m == Leftmost({i \in 1..Len(text) : text[i] = "+CGNSPWR: " /\ i < Len(text) /\ text[i + 1] \in Digits})
    IN  IF m = 0 THEN Err("NotResolved")
        ELSE Ok(IF DigitVal(text[m + 1]) = 1 THEN 1 ELSE 0)

\* hat::network_strength::resolver: \d* also matches no digit at all.
network_strength_resolver(text) ==
    LET m == Leftmost({i \in 1..Len(text) : text[i] = "+CSQ: "})
    IN  IF m = 0 THEN Err("NotResolved")
        ELSE LET number == DigitRun(SubSeq(text, m + 1, Len(text)))
             IN  IF ParsesU8(number) THEN Ok(NumVal(number)) ELSE Panic

\* gprs::conn_status::resolver.
conn_status_resolver(text) ==
    IF error_check(text) THEN Err("GprsNoConnection")
    ELSE LET m == Leftmost({i \in 1..Len(text) : text[i] = "+SAPBR: " /\ i < Len(text)})
         IN  IF m = 0 THEN Err("NotResolved")
             ELSE LET res == Split(RestOfLine(text, m))
                  IN  IF Len(res) >= 2 /\ ParsesU8(res[2])
                      THEN Ok(NumVal(res[2]))
                      ELSE Panic

\* phone::get_incoming_call::resolver: data[0] exists whatever the line holds.
get_incoming_call_resolver(text) ==
    LET m == Leftmost({i \in 1..Len(text) : text[i] = "+CLIP: " /\ i < Len(text)})
    IN  IF m = 0 THEN Err("NotResolved") ELSE Ok(0)

\* http::generic_resolver(result, regex).
http_generic_resolver(text, regex) ==
    IF error_check(text) THEN Err("GprsHttpRequestFailed")
    ELSE IF IsMatch(regex, text) THEN Ok(0) ELSE Err("NotResolved")

http_request_resolver(text) == http_generic_resolver(text, ACK_REGEX)

\* http::read::resolver.
http_read_resolver(text) ==
    IF error_check(text) THEN Err("GprsHttpRequestFailed")
    ELSE IF IsMatch(ACK_REGEX, text) THEN Ok(0) ELSE Err("NotResolved")

ResolverNames == {"generic", "is_on", "get_data", "gnss_is_on",
                  "network_strength", "conn_status", "get_incoming_call",
                  "http_request", "http_read"}

\* resolver(read) for the resolver of that name; "Feature" is the error the
\* caller of generic_resolver passes in.
Apply(name, text) ==
    CASE name = "generic" ->
            IF generic_resolver(text) = "Ok" THEN Ok(0)
            ELSE Err(generic_resolver(text))
      [] name = "is_on" ->
            IF is_on_resolver(text) = "Ok" THEN Ok(1)
            ELSE Err(is_on_resolver(text))
      [] name = "get_data"          -> get_data_resolver(text)
      [] name = "gnss_is_on"        -> gnss_is_on_resolver(text)
      [] name = "network_strength"  -> network_strength_resolver(text)
      [] name = "conn_status"       -> conn_status_resolver(text)
      [] name = "get_incoming_call" -> get_incoming_call_resolver(text)
      [] name = "http_request"      -> http_request_resolver(text)
      [] name = "http_read"         -> http_read_resolver(text)

\* The characters that matter to a resolver, and one that does not.
Alphabet(name) ==
    CASE name = "get_data"          -> {"+CGNSINF: ", "0", "1", ",", "CRLF", "x"}
      [] name = "gnss_is_on"        -> {"+CGNSPWR: ", "0", "1", "CRLF", "x"}
      [] name = "network_strength"  -> {"+CSQ: ", "1", "3", ",", "CRLF", "x"}
      [] name = "conn_status"       -> {"+SAPBR: ", "1", "3", ",", "CRLF", "ERROR"}
      [] name = "get_incoming_call" -> {"+CLIP: ", ",", "CRLF", "x"}
      [] OTHER                      -> {"CRLF", "OK", "ERROR", "x"}

Texts(name) == UNION {[1..n -> Alphabet(name)] : n \in 0..MaxText}

\* A resolver and a text for it.
InitResolve ==
    /\ InitTasks /\ InitRead /\ InitFlow /\ InitLocks
    /\ rname \in ResolverNames
    /\ input \in Texts(rname)
    /\ output = [kind |-> "none", val |-> 0]

\* The polling loop hands the text to the resolver.
ApplyResolver ==
    /\ output.kind = "none"
    /\ output' = Apply(rname, input)
    /\ UNCHANGED <<rname, input>>
    /\ UNCHANGED notResolve

NextResolve == ApplyResolver

SpecResolve == InitResolve /\ [][NextResolve]_vars

(***************************************************************************)
(* Properties of the resolvers (SpecResolve).                              *)
(***************************************************************************)
HasTerminator(text, word) ==
    \E i \in 1..(Len(text) - 2) :
        text[i] = "CRLF" /\ text[i + 1] = word /\ text[i + 2] = "CRLF"

\* C11: generic_resolver returns the caller's error iff the text contains
\* "\r\nERROR\r\n", Ok iff it contains "\r\nOK\r\n" and not "\r\nERROR\r\n",
\* and NotResolved otherwise; with both terminators the error wins.
C11_GenericResolver ==
    (rname = "generic" /\ output.kind # "none") =>
        /\ output.kind = "Feature" <=> HasTerminator(input, "ERROR")
        /\ output.kind = "Ok" <=>
              (HasTerminator(input, "OK") /\ ~HasTerminator(input, "ERROR"))
        /\ output.kind = "NotResolved" <=>
              (~HasTerminator(input, "OK") /\ ~HasTerminator(input, "ERROR"))

\* A text with both terminators was resolved to the caller's error.
C11_Witness ==
    /\ rname = "generic"
    /\ HasTerminator(input, "OK") /\ HasTerminator(input, "ERROR")
    /\ output.kind = "Feature"

\* C12: no resolver panics, whatever text it is handed; a text that holds
\* no complete response is NotResolved.
C12_ResolversTotal == output.kind # "panic"

(***************************************************************************)
(* The multi-step feature functions (SpecFlow).  One task runs one         *)
(* function; every broker call it makes is one step whose outcome is       *)
(* drawn from what the call can return.                                    *)
(***************************************************************************)
Flows == {"sms_send", "sms_get_messages", "sms_remove_all_messages",
          "gprs_init", "gprs_request"}
SmsFlows == {"sms_send", "sms_get_messages", "sms_remove_all_messages"}
HatFlows == {"turn_off", "turn_on"}

\* Request<T>: url and data stand for whether they parse / serialize.
Requests == [method : {"GET", "POST", "HEAD"},
             content_type : {"None", "FormUrlencoded", "Json"},
             headers : BOOLEAN, urlOk : BOOLEAN, dataOk : BOOLEAN]

\* What process / read with a resolver whose typed error is e returns: the
\* resolver's Ok, its error, NotResolved at the timeout, or a UART error.
ProcessOutcomes(e) == {Ok(0), Err(e), Err("NotResolved"), Err("Uart")}

\* What write returns.
WriteOutcomes == {Ok(0), Err("Uart")}

\* What conn_status makes of the modem's answer: whatever its resolver
\* returns for some text, the timeout, a UART error, or the resolver's panic.
StatusOutcomes ==
    {conn_status_resolver(t) : t \in Texts("conn_status")} \cup {Err("Uart")}

\* The broker call is recorded with what it returned.
Log(c, o) == cmds' = Append(cmds, [cmd |-> c, out |-> o])

\* The HTTP session after call c returned o: an acknowledged AT+HTTPINIT
\* opens it and an acknowledged AT+HTTPTERM ends it.
SessionAfter(c, o) ==
    session' = IF o.kind = "Ok" /\ c = "AT+HTTPINIT" THEN TRUE
               ELSE IF o.kind = "Ok" /\ c = "AT+HTTPTERM" THEN FALSE
               ELSE session

\* The function goes on with its next statement.
Goto(p) == fpc' = p /\ inner' = inner /\ fresult' = fresult

\* The feature function returns r.
Return(r) == fpc' = "done" /\ fresult' = r /\ inner' = inner

\* gprs::request returns r to request_wrapper, which goes on to conn_close.
InnerReturn(r) == fpc' = "close" /\ inner' = r /\ fresult' = fresult

\* The task function is started with its arguments.
StartFlow(f, r) ==
    /\ fpc = "idle"
    /\ (f = "gprs_request") <=> (r \in Requests)
    /\ flow' = f
    /\ req' = r
    /\ fpc' = CASE f \in SmsFlows     -> "set_text_mode"
                [] f = "gprs_init"    -> "init_apn"
                [] f = "gprs_request" -> "guard"
                [] f = "turn_off"     -> "is_on"
                [] f = "turn_on"      -> "await_is_on"
    /\ idx' = IF f = "gprs_init" THEN 1 ELSE 0
    /\ UNCHANGED <<cmds, inner, fresult>>
    /\ UNCHANGED <<toggles, session, notFlow>>

\* Faulty variant: the result of set_text_mode is dropped.
SetTextModeUnchecked(o) ==
    /\ fpc = "set_text_mode"
    /\ Log("AT+CMGF=1", o)
    /\ Goto("sms_command")
    /\ UNCHANGED <<flow, req, idx>>
    /\ UNCHANGED <<toggles, session, notFlow>>
\* set_text_mode(&serial_port, &task_id)?
SetTextMode(o) ==
    /\ fpc = "set_text_mode"
    /\ Log("AT+CMGF=1", o)
    /\ IF o.kind = "Ok" THEN Goto("sms_command") ELSE Return(o.kind)
    /\ UNCHANGED <<flow, req, idx>>
    /\ UNCHANGED <<toggles, session, notFlow>>

SmsCommandOf(f) ==
    CASE f = "sms_send"                -> "AT+CMGS"
      [] f = "sms_get_messages"        -> "AT+CMGL"
      [] f = "sms_remove_all_messages" -> "AT+CMGDA"

SmsErrorOf(f) ==
    CASE f = "sms_send"                -> "SmsNotSent"
      [] f = "sms_get_messages"        -> "SmsProblemWithReadingMessages"
      [] f = "sms_remove_all_messages" -> "SmsRemoveMessageFailed"

\* What the last process call of the function returns; the resolver of
\* get_messages indexes and parses the fields of every +CMGL line with
\* "expect" (parse_message) and panics on a line it cannot take apart.
SmsOutcomes(f) ==
    ProcessOutcomes(SmsErrorOf(f))
    \cup (IF f = "sms_get_messages" THEN {Panic} ELSE {})

\* The process call that ends send, get_messages and remove_all_messages.
SmsCommand(o) ==
    /\ fpc = "sms_command"
    /\ o \in SmsOutcomes(flow)
    /\ Log(SmsCommandOf(flow), o)
    /\ IF o.kind = "panic" THEN Goto("panicked") ELSE Return(o.kind)
    /\ UNCHANGED <<flow, req, idx>>
    /\ UNCHANGED <<toggles, session, notFlow>>

ApnCommands == <<"AT+SAPBR=3,1,Contype", "AT+SAPBR=3,1,APN",
                 "AT+SAPBR=3,1,USER", "AT+SAPBR=3,1,PWD">>

\* gprs::init: for command in commands { process(..)? } and Ok(()) after.
GprsInitCommand(o) ==
    /\ fpc = "init_apn"
    /\ Log(ApnCommands[idx], o)
    /\ IF o.kind # "Ok" THEN Return(o.kind) /\ idx' = idx
       ELSE IF idx < Len(ApnCommands) THEN Goto("init_apn") /\ idx' = idx + 1
       ELSE Return("Ok") /\ idx' = idx
    /\ UNCHANGED <<flow, req>>
    /\ UNCHANGED <<toggles, session, notFlow>>

\* What hat::is_on returns: its resolver knows Ok(true) and NotResolved only,
\* and process adds the UART error.
IsOnOutcomes == {Ok(1), Err("NotResolved"), Err("Uart")}

\* Faulty variant: every error of the probe is reported as HatAlreadyOff.
TurnOffProbeAnyErrorIsOff(o) ==
    /\ fpc = "is_on"
    /\ Log("AT", o)
    /\ IF o.kind = "Ok" THEN Goto("power_down") ELSE Return("HatAlreadyOff")
    /\ UNCHANGED <<flow, req, idx>>
    /\ UNCHANGED <<toggles, session, notFlow>>
\* hat::turn_off: match is_on(serial_port, task_id, ()), is_on being
\* process("AT\n", resolver, 2 s).
TurnOffProbe(o) ==
    /\ fpc = "is_on"
    /\ Log("AT", o)
    /\ CASE o.kind = "Ok"          -> Goto("power_down")
         [] o.kind = "NotResolved" -> Return("HatAlreadyOff")
         [] OTHER                  -> Return(o.kind)
    /\ UNCHANGED <<flow, req, idx>>
    /\ UNCHANGED <<toggles, session, notFlow>>

\* Ok(_) => serial_port.write(task_id, "AT+CPOWD=0\n"), the value of turn_off.
TurnOffPowerDown(o) ==
    /\ fpc = "power_down"
    /\ Log("AT+CPOWD=0", o)
    /\ Return(o.kind)
    /\ UNCHANGED <<flow, req, idx>>
    /\ UNCHANGED <<toggles, session, notFlow>>

\* What Hat::turn_on gets from self.is_on().await: the result of the is_on
\* task, or the JoinError of a task that panicked.
AwaitIsOnOutcomes == IsOnOutcomes \cup {Err("JoinError")}

\* Faulty variant: every error of the probe leads to the power pulse.
TurnOnProbeAnyErrorToggles(o) ==
    /\ fpc = "await_is_on"
    /\ Log("AT", o)
    /\ IF o.kind = "Ok" THEN Return("HatAlreadyOn") ELSE Goto("toggle_power")
    /\ UNCHANGED <<flow, req, idx, toggles, session>>
    /\ UNCHANGED notFlow
\* Hat::turn_on: match self.is_on().await? { Ok(_) => Err(HatAlreadyOn),
\* Err(e) => match e.kind() { NotResolved => .., _ => Err(e) } }
TurnOnProbe(o) ==
    /\ fpc = "await_is_on"
    /\ Log("AT", o)
    /\ CASE o.kind = "Ok"          -> Return("HatAlreadyOn")
         [] o.kind = "NotResolved" -> Goto("toggle_power")
         [] OTHER                  -> Return(o.kind)
    /\ UNCHANGED <<flow, req, idx, toggles, session>>
    /\ UNCHANGED notFlow

\* self.toggle_power(); Ok(()): with the pin acquired it is driven low, held
\* for 4 s and driven high; Gpio::new() or get(TOGGLE_POWER_PIN) returning
\* Err makes "expect" panic before the pin is touched.
TogglePower(acquired) ==
    /\ fpc = "toggle_power"
    /\ IF acquired
       THEN toggles' = toggles + 1 /\ Return("Ok")
       ELSE toggles' = toggles /\ Goto("panicked")
    /\ UNCHANGED <<flow, req, idx, cmds, session>>
    /\ UNCHANGED notFlow

\* Faulty variant: the guard's result is propagated with "?".
HttpTerminateGuardChecked(o) ==
    /\ fpc = "guard"
    /\ Log("AT+HTTPTERM", o)
    /\ IF o.kind = "Ok" THEN Goto("conn_status") ELSE InnerReturn(o.kind)
    /\ UNCHANGED <<flow, req, idx>>
    /\ SessionAfter("AT+HTTPTERM", o)
    /\ UNCHANGED <<toggles, notFlow>>
\* gprs::request: let _ = http::terminate(serial_port, task_id);
HttpTerminateGuard(o) ==
    /\ fpc = "guard"
    /\ Log("AT+HTTPTERM", o)
    /\ Goto("conn_status")
    /\ UNCHANGED <<flow, req, idx>>
    /\ SessionAfter("AT+HTTPTERM", o)
    /\ UNCHANGED <<toggles, notFlow>>

\* Faulty variant: the bearer is opened when the status is not 3.
ConnStatusOpensUnlessThree(o) ==
    /\ fpc = "conn_status"
    /\ Log("AT+SAPBR=2,1", o)
    /\ CASE o.kind = "panic" -> Goto("panicked")
         [] o.kind = "Ok"    -> Goto(IF o.val # 3 THEN "conn_open" ELSE "http_init")
         [] OTHER            -> InnerReturn(o.kind)
    /\ UNCHANGED <<flow, req, idx, toggles, session>>
    /\ UNCHANGED notFlow
\* let status: u8 = conn_status(serial_port, task_id)?; if status == 3 ..
\* A panic of the resolver unwinds request and request_wrapper.
ConnStatus(o) ==
    /\ fpc = "conn_status"
    /\ Log("AT+SAPBR=2,1", o)
    /\ CASE o.kind = "panic" -> Goto("panicked")
         [] o.kind = "Ok"    -> Goto(IF o.val = 3 THEN "conn_open" ELSE "http_init")
         [] OTHER            -> InnerReturn(o.kind)
    /\ UNCHANGED <<flow, req, idx>>
    /\ UNCHANGED <<toggles, session, notFlow>>

\* conn_open(serial_port, task_id)?
ConnOpen(o) ==
    /\ fpc = "conn_open"
    /\ Log("AT+SAPBR=1,1", o)
    /\ IF o.kind = "Ok" THEN Goto("http_init") ELSE InnerReturn(o.kind)
    /\ UNCHANGED <<flow, req, idx>>
    /\ UNCHANGED <<toggles, session, notFlow>>

\* http::init up to its command list: Url::parse(&request.url)? and, for
\* GET, serde_url_params::to_string(&request.data)?
HttpInitUrl ==
    /\ fpc = "http_init"
    /\ IF ~req.urlOk THEN InnerReturn("UrlParse") /\ idx' = idx
       ELSE IF req.method = "GET" /\ ~req.dataOk
       THEN InnerReturn("RequestBodyParsingFailed") /\ idx' = idx
       ELSE Goto("http_init_cmd") /\ idx' = 1
    /\ UNCHANGED <<flow, req, cmds>>
    /\ UNCHANGED <<toggles, session, notFlow>>

\* Faulty variant: the content type is set before the URL.
InitCommandsContentFirst(r) ==
    <<"AT+HTTPINIT", "AT+HTTPPARA=CID,1">>
    \o (IF r.method = "POST" THEN <<"AT+HTTPPARA=CONTENT">> ELSE <<>>)
    \o <<"AT+HTTPPARA=URL">>
    \o (IF r.headers THEN <<"AT+HTTPPARA=USERDATA">> ELSE <<>>)
\* http::init: the commands vector.
InitCommands(r) ==
    <<"AT+HTTPINIT", "AT+HTTPPARA=CID,1", "AT+HTTPPARA=URL">>
    \o (IF r.headers THEN <<"AT+HTTPPARA=USERDATA">> ELSE <<>>)
    \o (IF r.method = "POST" THEN <<"AT+HTTPPARA=CONTENT">> ELSE <<>>)

\* http::init: for command in commands { process(..)?; }, then back in
\* request: if matches!(req.method, RequestMethod::POST) ..
HttpInitCommand(o) ==
    /\ fpc = "http_init_cmd"
    /\ Log(InitCommands(req)[idx], o)
    /\ IF o.kind # "Ok" THEN InnerReturn(o.kind) /\ idx' = idx
       ELSE IF idx < Len(InitCommands(req))
       THEN Goto("http_init_cmd") /\ idx' = idx + 1
       ELSE /\ Goto(IF req.method = "POST" THEN "http_data" ELSE "http_action")
            /\ idx' = idx
    /\ UNCHANGED <<flow, req>>
    /\ SessionAfter(InitCommands(req)[idx], o)
    /\ UNCHANGED <<toggles, notFlow>>

\* http::data: the body is serialized as its content type says.
HttpDataSerialize ==
    /\ fpc = "http_data"
    /\ IF req.dataOk THEN Goto("http_data_cmd")
       ELSE InnerReturn(IF req.content_type = "Json"
                        THEN "JsonSerialisationFailed"
                        ELSE "RequestBodyParsingFailed")
    /\ UNCHANGED <<flow, req, idx, cmds>>
    /\ UNCHANGED <<toggles, session, notFlow>>

\* process("AT+HTTPDATA=<len>,6000", http_data_resolver, 10 s)?: Ok is the
\* DOWNLOAD prompt.
HttpDataCommand(o) ==
    /\ fpc = "http_data_cmd"
    /\ Log("AT+HTTPDATA", o)
    /\ IF o.kind = "Ok" THEN Goto("http_data_write") ELSE InnerReturn(o.kind)
    /\ UNCHANGED <<flow, req, idx>>
    /\ UNCHANGED <<toggles, session, notFlow>>

\* serial_port.write(task_id, data)?
HttpDataWrite(o) ==
    /\ fpc = "http_data_write"
    /\ Log("write body", o)
    /\ IF o.kind = "Ok" THEN Goto("http_data_read") ELSE InnerReturn(o.kind)
    /\ UNCHANGED <<flow, req, idx>>
    /\ UNCHANGED <<toggles, session, notFlow>>

\* serial_port.read(task_id, http_request_resolver, 6 s), the value of data;
\* request applies "?" to it.
HttpDataRead(o) ==
    /\ fpc = "http_data_read"
    /\ Log("read", o)
    /\ IF o.kind = "Ok" THEN Goto("http_action") ELSE InnerReturn(o.kind)
    /\ UNCHANGED <<flow, req, idx>>
    /\ UNCHANGED <<toggles, session, notFlow>>

\* http::action(serial_port, task_id, req.method)?
HttpAction(o) ==
    /\ fpc = "http_action"
    /\ Log("AT+HTTPACTION", o)
    /\ IF o.kind = "Ok" THEN Goto("http_read") ELSE InnerReturn(o.kind)
    /\ UNCHANGED <<flow, req, idx>>
    /\ UNCHANGED <<toggles, session, notFlow>>

\* Faulty variant: the session is terminated whatever http::read returned.
HttpReadThenTerminate(o) ==
    /\ fpc = "http_read"
    /\ Log("AT+HTTPREAD", o)
    /\ Goto("http_terminate")
    /\ UNCHANGED <<flow, req, idx>>
    /\ UNCHANGED <<toggles, session, notFlow>>
\* let read: String = http::read(serial_port, task_id)?
HttpRead(o) ==
    /\ fpc = "http_read"
    /\ Log("AT+HTTPREAD", o)
    /\ IF o.kind = "Ok" THEN Goto("http_terminate") ELSE InnerReturn(o.kind)
    /\ UNCHANGED <<flow, req, idx>>
    /\ UNCHANGED <<toggles, session, notFlow>>

\* http::terminate(serial_port, task_id)?; Ok(read)
HttpTerminate(o) ==
    /\ fpc = "http_terminate"
    /\ Log("AT+HTTPTERM", o)
    /\ InnerReturn(o.kind)
    /\ UNCHANGED <<flow, req, idx>>
    /\ SessionAfter("AT+HTTPTERM", o)
    /\ UNCHANGED <<toggles, notFlow>>

\* request_wrapper: conn_close(serial_port, task_id, ())?; result
ConnClose(o) ==
    /\ fpc = "close"
    /\ Log("AT+CGATT=0", o)
    /\ fpc' = "done"
    /\ fresult' = IF o.kind = "Ok" THEN inner ELSE o.kind
    /\ inner' = inner
    /\ UNCHANGED <<flow, req, idx>>
    /\ UNCHANGED <<toggles, session, notFlow>>

HttpOutcomes == ProcessOutcomes("GprsHttpRequestFailed")

\* The task function has returned and its task has ended; the application
\* may spawn a later task on the same SerialPort and the same modem.
TaskEnds ==
    /\ fpc = "done"
    /\ flow' = "none"
    /\ req' = NoRequest
    /\ fpc' = "idle"
    /\ idx' = 0
    /\ cmds' = <<>>
    /\ inner' = "none"
    /\ fresult' = "none"
    /\ toggles' = 0
    /\ UNCHANGED session
    /\ UNCHANGED notFlow

\* The SerialPort method a logged call was made with.
CallOf(c) ==
    CASE c \in {"write body", "AT+CPOWD=0"} -> "write"
      [] c = "read"                         -> "read"
      [] OTHER                              -> "process"

NextFlow ==
    \/ \E f \in Flows \cup HatFlows, r \in Requests \cup {NoRequest} :
          StartFlow(f, r)
    \/ \E o \in ProcessOutcomes("SmsProblemWithSettingTextMode") : SetTextMode(o)
    \/ \E o \in UNION {SmsOutcomes(f) : f \in SmsFlows} : SmsCommand(o)
    \/ \E o \in ProcessOutcomes("GprsApnConfigSetFailed") : GprsInitCommand(o)
    \/ \E o \in IsOnOutcomes : TurnOffProbe(o)
    \/ \E o \in WriteOutcomes : TurnOffPowerDown(o)
    \/ \E o \in AwaitIsOnOutcomes : TurnOnProbe(o)
    \/ \E acquired \in BOOLEAN : TogglePower(acquired)
    \/ \E o \in HttpOutcomes : HttpTerminateGuard(o)
    \/ \E o \in StatusOutcomes : ConnStatus(o)
    \/ \E o \in ProcessOutcomes("GprsConnectionOpenFailed") : ConnOpen(o)
    \/ HttpInitUrl
    \/ \E o \in HttpOutcomes : HttpInitCommand(o)
    \/ HttpDataSerialize
    \/ \E o \in HttpOutcomes : HttpDataCommand(o)
    \/ \E o \in WriteOutcomes : HttpDataWrite(o)
    \/ \E o \in HttpOutcomes : HttpDataRead(o)
    \/ \E o \in HttpOutcomes : HttpAction(o)
    \/ \E o \in HttpOutcomes : HttpRead(o)
    \/ \E o \in HttpOutcomes : HttpTerminate(o)
    \/ \E o \in ProcessOutcomes("GprsConnectionCloseFailed") : ConnClose(o)
    \/ TaskEnds

SpecFlow == Init /\ [][NextFlow]_vars

(***************************************************************************)
(* Properties of the feature functions (SpecFlow).                         *)
(***************************************************************************)
\* The positions of the log at which command c was issued.
IssuedAt(c) == {i \in 1..Len(cmds) : cmds[i].cmd = c}

\* The request task has ended: request_wrapper returned, or it was unwound.
RequestEnded == flow = "gprs_request" /\ fpc \in {"done", "panicked"}

\* What conn_close returned.
CloseOutcome == cmds[Len(cmds)].out.kind

\* C13: request_wrapper returns the inner request's error if the inner
\* request failed, whether or not the close failed; the close error if the
\* inner request succeeded and the close failed; the response otherwise.
C13_WrapperResult ==
    (flow = "gprs_request" /\ fpc = "done") =>
        fresult = IF inner # "Ok" THEN inner ELSE CloseOutcome

\* C14: once the request task has ended, AT+CGATT=0 was issued exactly once
\* and it is the last command issued, whatever path the inner request took.
C14_CloseOnceAfterInner ==
    RequestEnded => IssuedAt("AT+CGATT=0") = {Len(cmds)}

\* The commands of the flow itself: all but the guard HTTPTERM and the
\* wrapper's AT+CGATT=0 of a request.
FlowSteps ==
    IF flow = "gprs_request"
    THEN {i \in 2..Len(cmds) : cmds[i].cmd # "AT+CGATT=0"}
    ELSE 1..Len(cmds)

\* What the flow itself returned.
FlowResult == IF flow = "gprs_request" THEN inner ELSE fresult

\* C15: in the SMS functions, GPRS init and the inner HTTP request, a step
\* that does not return Ok is the last step of the flow, and its error is
\* what the flow returns; the flow returns Ok only after all steps did.
C15_FirstFailureSurfaces ==
    flow \in Flows =>
    /\ \A i \in FlowSteps :
          cmds[i].out.kind # "Ok" =>
              /\ \A j \in FlowSteps : j <= i
              /\ fpc \in {"close", "done", "panicked"}
              /\ fpc # "panicked" => FlowResult = cmds[i].out.kind
    /\ FlowResult = "Ok" => \A i \in FlowSteps : cmds[i].out.kind = "Ok"

\* A flow was ended by the typed error of its AT+CMGF=1, of its second
\* AT+SAPBR=3 or of its AT+HTTPACTION, and returned that error.
C15_Witness ==
    /\ fpc = "done"
    /\ \E i \in FlowSteps :
          /\ cmds[i].cmd \in {"AT+CMGF=1", "AT+SAPBR=3,1,APN", "AT+HTTPACTION"}
          /\ cmds[i].out.kind \notin {"Ok", "NotResolved", "Uart"}
          /\ FlowResult = cmds[i].out.kind
          /\ \A j \in FlowSteps : j <= i

\* The commands of a successful request, in order.
ExpectedCommands(r, status) ==
    <<"AT+HTTPTERM", "AT+SAPBR=2,1">>
    \o (IF status = 3 THEN <<"AT+SAPBR=1,1">> ELSE <<>>)
    \o <<"AT+HTTPINIT", "AT+HTTPPARA=CID,1", "AT+HTTPPARA=URL">>
    \o (IF r.headers THEN <<"AT+HTTPPARA=USERDATA">> ELSE <<>>)
    \o (IF r.method = "POST"
        THEN <<"AT+HTTPPARA=CONTENT", "AT+HTTPDATA", "write body", "read">>
        ELSE <<>>)
    \o <<"AT+HTTPACTION", "AT+HTTPREAD", "AT+HTTPTERM", "AT+CGATT=0">>

\* C16: a successful HTTP request issued its commands in the order guard
\* HTTPTERM, status probe, open if the status asks for it, HTTPINIT, HTTPPARA
\* CID, URL, USERDATA if any, CONTENT for POST, for POST HTTPDATA then the
\* body write then the read, HTTPACTION, HTTPREAD, HTTPTERM, AT+CGATT=0;
\* HTTPDATA and the body are issued only for POST, and the body only right
\* after HTTPDATA was resolved by the DOWNLOAD prompt.
C16_RequestOrder ==
    flow = "gprs_request" =>
        /\ (fpc = "done" /\ fresult = "Ok") =>
              [i \in 1..Len(cmds) |-> cmds[i].cmd]
                  = ExpectedCommands(req, cmds[2].out.val)
        /\ IssuedAt("AT+HTTPDATA") # {} => req.method = "POST"
        /\ \A i \in IssuedAt("write body") :
              /\ req.method = "POST"
              /\ i > 1
              /\ cmds[i - 1].cmd = "AT+HTTPDATA"
              /\ cmds[i - 1].out.kind = "Ok"

\* A POST request with headers that had to open the bearer succeeded.
C16_Witness ==
    /\ flow = "gprs_request" /\ fpc = "done" /\ fresult = "Ok"
    /\ req.method = "POST" /\ req.headers
    /\ cmds[2].out.val = 3

\* C17: whatever the guard HTTPTERM returned, the request goes on with the
\* status probe, and an error the request returns is the serialization
\* error of its arguments or the error of a call made after the guard.
C17_GuardDiscarded ==
    (flow = "gprs_request" /\ Len(cmds) >= 1) =>
        /\ cmds[1].cmd = "AT+HTTPTERM"
        /\ Len(cmds) = 1 => (fpc = "conn_status" /\ inner = "none")
        /\ Len(cmds) >= 2 => cmds[2].cmd = "AT+SAPBR=2,1"
        /\ \A e \in {inner, fresult} \ {"none", "Ok"} :
              \/ e \in {"UrlParse", "RequestBodyParsingFailed",
                        "JsonSerialisationFailed"}
              \/ \E i \in 2..Len(cmds) : cmds[i].out.kind = e

\* The guard failed and the request succeeded all the same.
C17_Witness ==
    /\ flow = "gprs_request" /\ fpc = "done" /\ fresult = "Ok"
    /\ cmds[1].out.kind = "GprsHttpRequestFailed"

(***************************************************************************)
(* The queue over the life of a task (Spec).                               *)
(***************************************************************************)
\* The tasks between their add_to_queue and their remove_from_queue.
Enqueued == {t \in Tasks : pc[t] \in {"wait", "call", "flush", "write",
                                       "poll", "remove"}}

\* The task's function has returned and remove_from_queue has run.
Completed(t) == pc[t] = "done"

\* C18: the queue holds exactly the tasks that were pushed and have not yet
\* completed, each once and with the priority it was pushed with; so a task
\* that has completed, with Ok or with Err, left the queue as if it had never
\* been pushed, and the queue is empty once all tasks have completed.
C18_QueueRoundTrip ==
    /\ Len(queue) = Cardinality(Enqueued)
    /\ \A t \in Enqueued :
          \E i \in 1..Len(queue) :
              queue[i].id = t /\ queue[i].pri = PriorityOf(t)
    /\ (\A t \in Tasks : Completed(t)) => queue = <<>>

\* One task completed with Ok and one with Err, and the queue holds the
\* third task alone.
C18_Witness ==
    \E t, u, v \in Tasks :
        /\ Completed(t) /\ result[t] = "Ok"
        /\ Completed(u) /\ result[u] \notin {"Ok", "none"}
        /\ v \notin {t, u} /\ v \in Enqueued
        /\ Ids(queue) = {v}

(***************************************************************************)
(* Stale input and undecodable input (SpecRead).                           *)
(***************************************************************************)
\* C19: a process call never reads a byte that was in the UART input queue
\* before the call started, so no text handed to its resolver, the first
\* one included, holds such a byte.
C19_NoStaleBytes == callType = "process" => ~staleRead

\* A process call that started with bytes in the input queue discarded them
\* and handed its resolver a text of bytes that came in afterwards.
C19_Witness ==
    /\ callType = "process"
    /\ dropped > 0
    /\ invoked >= 1
    /\ read # <<>>

HasInvalid(bytes) == \E i \in 1..Len(bytes) : bytes[i] = "BAD"

\* The resolver has just been invoked for the bytes in readVec, or the loop
\* has ended at the timeout after that invocation.
JustResolved == invoked >= 1 /\ rpc \in {"loop", "done"} /\ ~uartFailed

\* C20: when the bytes of a poll iteration are not valid UTF-8 the resolver
\* is invoked with the empty string and no error comes of it: the loop goes
\* round again and ends only at the timeout or by a later outcome.
C20_InvalidUtf8Absorbed ==
    (JustResolved /\ HasInvalid(readVec)) =>
        /\ read = <<>>
        /\ lastOutcome = Resolve(resolver, <<>>)
        /\ lastOutcome = "NotResolved"
        /\ rpc = "done" => (rresult = "NotResolved" /\ elapsed > timeout)

\* After an iteration of invalid bytes the loop went round, and a later
\* iteration handed the resolver a valid text.
C20_Witness ==
    /\ HasInvalid(allRead)
    /\ ~HasInvalid(readVec)
    /\ JustResolved
    /\ invoked >= 2
    /\ read # <<>>

(***************************************************************************)
(* hat::turn_off (SpecFlow).                                               *)
(***************************************************************************)
\* The calls turn_off has made, as <<command, method>> pairs.
TurnOffCalls == [i \in 1..Len(cmds) |-> <<cmds[i].cmd, CallOf(cmds[i].cmd)>>]

\* What the probe returned.
ProbeOutcome == cmds[1].out.kind

\* C21 as stated: turn_off probes with "AT\n" first; a probe that ends
\* NotResolved gives HatAlreadyOff and no power-down command, a probe that
\* fails otherwise gives that error and no power-down command, and an
\* acknowledged probe is followed by the write of "AT+CPOWD=0\n", with no read
\* of a reply, and turn_off returns Ok.
C21_TurnOffAsStated ==
    (flow = "turn_off" /\ fpc = "done") =>
        /\ TurnOffCalls[1] = <<"AT", "process">>
        /\ ProbeOutcome = "NotResolved" =>
              (fresult = "HatAlreadyOff" /\ Len(cmds) = 1)
        /\ ProbeOutcome \notin {"Ok", "NotResolved"} =>
              (fresult = ProbeOutcome /\ Len(cmds) = 1)
        /\ ProbeOutcome = "Ok" =>
              /\ TurnOffCalls = <<<<"AT", "process">>, <<"AT+CPOWD=0", "write">>>>
              /\ fresult = "Ok"

\* C21, amended: as above, but after an acknowledged probe turn_off returns
\* what the write of "AT+CPOWD=0\n" returned: Ok, or the UART error when the
\* write failed.
C21_TurnOff ==
    /\ (flow = "turn_off" /\ Len(cmds) >= 1) =>
          /\ TurnOffCalls[1] = <<"AT", "process">>
          /\ Len(cmds) >= 2 =>
                /\ ProbeOutcome = "Ok"
                /\ TurnOffCalls = <<<<"AT", "process">>, <<"AT+CPOWD=0", "write">>>>
    /\ (flow = "turn_off" /\ fpc = "done") =>
          /\ ProbeOutcome = "NotResolved" =>
                (fresult = "HatAlreadyOff" /\ Len(cmds) = 1)
          /\ ProbeOutcome \notin {"Ok", "NotResolved"} =>
                (fresult = ProbeOutcome /\ Len(cmds) = 1)
          /\ ProbeOutcome = "Ok" =>
                (Len(cmds) = 2 /\ fresult = cmds[2].out.kind)

\* The probe was acknowledged, the power-down command was written and
\* turn_off returned Ok.
C21_Witness ==
    /\ flow = "turn_off" /\ fpc = "done" /\ fresult = "Ok"
    /\ Len(cmds) = 2 /\ cmds[2].cmd = "AT+CPOWD=0"

(***************************************************************************)
(* The task runner with the queue's RwLock in detail (SpecLocks).  The     *)
(* positions "push", "wait" and "remove" are the three places where a task *)
(* awaits a guard of the queue; "pushing", "peeking" and "removing" are    *)
(* the places where it holds one.  A broker call is two steps: lock() and  *)
(* the return, which drops the guard; between them the task is at "uart".  *)
(***************************************************************************)
QueueLockFree == queueLock.writer = NoTask /\ queueLock.readers = {}

\* tokio::spawn: the task starts and stands at queue.write().await of
\* add_to_queue.  Tasks are started in the order of their names.
Spawn(t, k) ==
    /\ pc[t] = "idle"
    /\ \A u \in Tasks : u < t => pc[u] # "idle"
    /\ pc' = [pc EXCEPT ![t] = "push"]
    /\ kind' = [kind EXCEPT ![t] = k]
    /\ UNCHANGED <<callIdx, result, queue, uartLock, polls, queueLock>>
    /\ UNCHANGED notLocks

\* queue.write().await of add_to_queue and of remove_from_queue: the write
\* guard is granted when no guard is alive.
QueueWrite(t) ==
    /\ pc[t] \in {"push", "remove"}
    /\ QueueLockFree
    /\ queueLock' = [queueLock EXCEPT !.writer = t]
    /\ pc' = [pc EXCEPT ![t] = IF pc[t] = "push" THEN "pushing" ELSE "removing"]
    /\ UNCHANGED <<kind, callIdx, result, queue, uartLock, polls>>
    /\ UNCHANGED notLocks

\* .push(task_id, priority); the write guard is a temporary of the statement.
PushEntry(t) ==
    /\ pc[t] = "pushing"
    /\ queue' = Push(queue, t, KindPriority(kind[t]))
    /\ queueLock' = [queueLock EXCEPT !.writer = NoTask]
    /\ pc' = [pc EXCEPT ![t] = "wait"]
    /\ UNCHANGED <<kind, callIdx, result, uartLock, polls>>
    /\ UNCHANGED notLocks

\* queue.read().await of await_in_queue: a read guard is granted while no
\* write guard is alive.
QueueRead(t) ==
    /\ pc[t] = "wait"
    /\ queueLock.writer = NoTask
    /\ queueLock' = [queueLock EXCEPT !.readers = @ \cup {t}]
    /\ pc' = [pc EXCEPT ![t] = "peeking"]
    /\ UNCHANGED <<kind, callIdx, result, queue, uartLock, polls>>
    /\ UNCHANGED notLocks

\* Faulty variant: the read guard outlives the loop of await_in_queue.
PeekHeadKeepsGuard(t) ==
    /\ pc[t] = "peeking"
    /\ queue # <<>>
    /\ Peek(queue).id = t
    /\ pc' = [pc EXCEPT ![t] = "call"]
    /\ callIdx' = [callIdx EXCEPT ![t] = 1]
    /\ UNCHANGED <<kind, result, queue, uartLock, polls, queueLock>>
    /\ UNCHANGED notLocks
\* peek() returns the task's own id: break, which drops the read guard;
\* spawn_task goes on to task_fn.
PeekHead(t) ==
    /\ pc[t] = "peeking"
    /\ queue # <<>>
    /\ Peek(queue).id = t
    /\ queueLock' = [queueLock EXCEPT !.readers = @ \ {t}]
    /\ pc' = [pc EXCEPT ![t] = "call"]
    /\ callIdx' = [callIdx EXCEPT ![t] = 1]
    /\ UNCHANGED <<kind, result, queue, uartLock, polls>>
    /\ UNCHANGED notLocks

\* peek() returns another id: drop(queue), then sleep(100 ms).
PeekOther(t) ==
    /\ pc[t] = "peeking"
    /\ queue # <<>>
    /\ Peek(queue).id # t
    /\ queueLock' = [queueLock EXCEPT !.readers = @ \ {t}]
    /\ pc' = [pc EXCEPT ![t] = "sleep"]
    /\ UNCHANGED <<kind, callIdx, result, queue, uartLock, polls>>
    /\ UNCHANGED notLocks

\* The sleep is over: the loop goes round to queue.read().await.
Wake(t) ==
    /\ pc[t] = "sleep"
    /\ pc' = [pc EXCEPT ![t] = "wait"]
    /\ UNCHANGED <<kind, callIdx, result, queue, uartLock, polls, queueLock>>
    /\ UNCHANGED notLocks

\* .remove(&task_id); the write guard is a temporary of the statement.
RemoveEntry(t) ==
    /\ pc[t] = "removing"
    /\ queue' = Remove(queue, t)
    /\ queueLock' = [queueLock EXCEPT !.writer = NoTask]
    /\ pc' = [pc EXCEPT ![t] = "done"]
    /\ UNCHANGED <<kind, callIdx, result, uartLock, polls>>
    /\ UNCHANGED notLocks

\* self.uart.lock() at the entry of write / read / process.
UartAcquire(t) ==
    /\ pc[t] = "call"
    /\ UartLockFree
    /\ uartLock' = t
    /\ pc' = [pc EXCEPT ![t] = "uart"]
    /\ UNCHANGED <<kind, callIdx, result, queue, polls, queueLock>>
    /\ UNCHANGED notLocks

\* The call flushes, writes and polls as its kind has it and returns, which
\* drops the MutexGuard; after Ok the function makes its next call, if it
\* has one, and otherwise it returns to spawn_task.
UartRelease(t, ok) ==
    /\ pc[t] = "uart"
    /\ uartLock' = NoTask
    /\ IF ok /\ callIdx[t] < Len(KindCalls(kind[t]))
       THEN /\ pc' = [pc EXCEPT ![t] = "call"]
            /\ callIdx' = [callIdx EXCEPT ![t] = @ + 1]
       ELSE /\ pc' = [pc EXCEPT ![t] = "remove"]
            /\ callIdx' = [callIdx EXCEPT ![t] = 0]
    /\ UNCHANGED <<kind, result, queue, polls, queueLock>>
    /\ UNCHANGED notLocks

NextLocks ==
    \E t \in Tasks :
        \/ \E k \in Kinds : Spawn(t, k)
        \/ QueueWrite(t)
        \/ PushEntry(t)
        \/ QueueRead(t)
        \/ PeekHead(t)
        \/ PeekOther(t)
        \/ Wake(t)
        \/ RemoveEntry(t)
        \/ UartAcquire(t)
        \/ \E ok \in BOOLEAN : UartRelease(t, ok)

SpecLocks == Init /\ [][NextLocks]_vars

HoldsQueue(t) == queueLock.writer = t \/ t \in queueLock.readers
WaitsQueue(t) == pc[t] \in {"push", "wait", "remove"}
HoldsUart(t)  == uartLock = t
WaitsUart(t)  == pc[t] = "call"
Sleeps(t)     == pc[t] = "sleep"

\* The task stands at a lock that cannot be granted now.
Blocked(t) ==
    \/ pc[t] \in {"push", "remove"} /\ ~QueueLockFree
    \/ pc[t] = "wait" /\ queueLock.writer # NoTask
    \/ pc[t] = "call" /\ ~UartLockFree

Unfinished == {t \in Tasks : pc[t] \notin {"idle", "done"}}

\* C22: no task holds a guard of the task queue while it holds or waits for
\* the UART lock; no task holds the UART lock while it holds or waits for a
\* guard of the queue or sleeps; and while tasks are unfinished, one of them
\* is not blocked on a lock.
C22_NoLockDeadlock ==
    /\ \A t \in Tasks : HoldsQueue(t) => (~HoldsUart(t) /\ ~WaitsUart(t))
    /\ \A t \in Tasks :
          HoldsUart(t) => (~HoldsQueue(t) /\ ~WaitsQueue(t) /\ ~Sleeps(t))
    /\ Unfinished # {} => \E t \in Unfinished : ~Blocked(t)

\* One task holds the UART lock inside a call, a second one holds a read
\* guard of the queue, and a third one is blocked at the write guard.
C22_Witness ==
    \E t, u, v \in Tasks :
        /\ HoldsUart(t) /\ pc[t] = "uart"
        /\ u \in queueLock.readers
        /\ pc[v] = "push" /\ Blocked(v)

(***************************************************************************)
(* The task runner with a resolver that panics (SpecLive).  A panic inside *)
(* uart_read unwinds the task: the MutexGuard is dropped, which poisons    *)
(* the mutex, and spawn_task never reaches remove_from_queue.              *)
(***************************************************************************)
\* The state of a std::sync::Mutex that was locked when its holder panicked.
Poisoned == NumTasks + 1

\* hat::network_strength, whose resolver parses the digits after "+CSQ: "
\* with "expect".
PanickingKinds == {"network_strength"}

\* One iteration of the uart_read loop in which the resolver panics: the poll
\* has read "+CSQ: " with no digit after it.
PollPanic(t) ==
    /\ pc[t] = "poll"
    /\ polls < MaxPolls
    /\ kind[t] \in PanickingKinds
    /\ network_strength_resolver(<<"+CSQ: ", "CRLF">>) = Panic
    /\ pc' = [pc EXCEPT ![t] = "panicked"]
    /\ uartLock' = Poisoned
    /\ polls' = 0
    /\ UNCHANGED <<kind, callIdx, result, queue>>
    /\ UNCHANGED notTask

\* self.uart.lock().expect(MUTEX_POISONED_MSG) on the poisoned mutex: the
\* task panics at the entry of its call.
LockPoisoned(t) ==
    /\ pc[t] = "call"
    /\ uartLock = Poisoned
    /\ pc' = [pc EXCEPT ![t] = "panicked"]
    /\ UNCHANGED <<kind, callIdx, result, queue, uartLock, polls>>
    /\ UNCHANGED notTask

NextLive ==
    \/ Next
    \/ \E t \in Tasks :
          \/ \E k \in PanickingKinds : AddToQueue(t, k)
          \/ PollPanic(t)
          \/ LockPoisoned(t)

\* The runtime runs every spawned task, and a task that sleeps in
\* await_in_queue peeks again every 100 ms: a step that can be taken is taken.
SpecLive == Init /\ [][NextLive]_vars /\ WF_vars(NextLive)

\* C23: every spawned task eventually is at the head of the queue, runs its
\* function, is removed from the queue and delivers its result.
C23_EveryTaskCompletes ==
    \A t \in Tasks : (pc[t] # "idle") ~> (pc[t] = "done")

(***************************************************************************)
(* Task ids, priorities and the life of a task (Spec).                     *)
(***************************************************************************)
\* C24: no id appears twice in the queue; the id of a task is in the queue
\* exactly from its push to its own remove, so not before the task is
\* enqueued and never again once it was removed.
C24_UniqueIds ==
    /\ Cardinality(Ids(queue)) = Len(queue)
    /\ Ids(queue) = Enqueued

\* The first task was removed, the other two are in the queue and the next
\* one has not been enqueued yet.
C24_Witness ==
    /\ Len(queue) = NumTasks - 1
    /\ \E t \in Tasks : pc[t] = "done"
    /\ Cardinality(Ids(queue)) = NumTasks - 1

\* The public methods that spawn a task, by the name of their task function
\* (with the module where two modules share the name).
Methods == {"is_on", "network_strength", "turn_off",
            "sms_send", "sms_get_messages", "sms_remove_all_messages",
            "sms_remove_message",
            "gnss_is_on", "gnss_turn_on", "gnss_turn_off", "gnss_get_data",
            "gprs_request", "gprs_init", "gprs_close_connection",
            "call", "end_call", "answer", "get_incoming_call"}

\* The TaskPriority each of them hands to spawn_task.
MethodPriority(m) ==
    CASE m = "is_on"                   -> NORMAL
      [] m = "network_strength"        -> NORMAL
      [] m = "turn_off"                -> HIGH
      [] m = "sms_send"                -> NORMAL
      [] m = "sms_get_messages"        -> NORMAL
      [] m = "sms_remove_all_messages" -> NORMAL
      [] m = "sms_remove_message"      -> NORMAL
      [] m = "gnss_is_on"              -> NORMAL
      [] m = "gnss_turn_on"            -> NORMAL
      [] m = "gnss_turn_off"           -> NORMAL
      [] m = "gnss_get_data"           -> NORMAL
      [] m = "gprs_request"            -> NORMAL
      [] m = "gprs_init"               -> NORMAL
      [] m = "gprs_close_connection"   -> NORMAL
      [] m = "call"                    -> NORMAL
      [] m = "end_call"                -> HIGH
      [] m = "answer"                  -> HIGH
      [] m = "get_incoming_call"       -> NORMAL

HighMethods   == {m \in Methods : MethodPriority(m) = HIGH}
NormalMethods == {m \in Methods : MethodPriority(m) = NORMAL}

\* The task functions of Spec are enqueued as their methods are.
KindsAreMethods ==
    \A k \in Kinds : k \in Methods /\ KindPriority(k) = MethodPriority(k)

\* C26: answer, end_call and the HAT's turn_off are enqueued with HIGH
\* priority and every other method with NORMAL priority, and the priority
\* of an entry of the queue is the one its task was enqueued with for as
\* long as the entry is in the queue.
C26_Priorities ==
    /\ HighMethods = {"answer", "end_call", "turn_off"}
    /\ NormalMethods = Methods \ {"answer", "end_call", "turn_off"}
    /\ KindsAreMethods
    /\ \A i \in 1..Len(queue) :
          queue[i].pri = KindPriority(kind[queue[i].id])

\* A HIGH entry was pushed behind two NORMAL entries and moved to the root;
\* all three have the priority they were pushed with.
C26_Witness ==
    /\ Len(queue) = 3
    /\ queue[1].pri = HIGH /\ queue[1].id = 3
    /\ kind[1] = "sms_send" /\ kind[2] = "get_incoming_call"
    /\ kind[3] = "end_call"

\* The stage of spawn_task a task is at: before the push, in the
\* head-of-queue wait, in its function, before its remove, ended.
Stage(t) ==
    CASE pc[t] = "idle"   -> 0
      [] pc[t] = "wait"   -> 1
      [] Executing(t)     -> 2
      [] pc[t] = "remove" -> 3
      [] pc[t] = "done"   -> 4

\* C27: a task goes through push, head-of-queue wait, function and remove
\* in this order, one after the other; its id is in the queue during the
\* wait and during the whole execution of the function and until the
\* remove, which follows the return of the function with Ok or with Err.
C27_LifecycleOrder ==
    /\ [](/\ Ids(queue) = {t \in Tasks : Stage(t) \in {1, 2, 3}}
          /\ \A t \in Tasks : Stage(t) \in {0, 1, 2} <=> result[t] = "none")
    /\ [][\A t \in Tasks :
            \/ pc[t]' = pc[t]
            \/ Stage(t)' = Stage(t)
            \/ Stage(t)' = Stage(t) + 1]_vars

\* A function has returned Err and its task stands before its remove, with
\* its id still in the queue, while another task has ended with Ok.
C27_Witness ==
    \E t, u \in Tasks :
        /\ pc[t] = "remove" /\ result[t] \notin {"Ok", "none"}
        /\ Contains(queue, t)
        /\ pc[u] = "done" /\ result[u] = "Ok"

\* C28: whenever a task is in await_in_queue, where it peeks, the queue is
\* not empty and holds the id of that task, so peek returns an entry and the
\* "expect" on it cannot panic.
C28_PeekNonEmpty ==
    \A t \in Tasks : pc[t] = "wait" => (queue # <<>> /\ Contains(queue, t))

\* A task peeks and finds another id at the head, after a third task was
\* removed from the queue.
C28_Witness ==
    \E t, u \in Tasks :
        /\ pc[t] = "wait" /\ Peek(queue).id # t
        /\ pc[u] = "done"

(***************************************************************************)
(* The UART operations of write, process and read (SpecRead).              *)
(***************************************************************************)
\* C25: write flushes the input queue only, then writes, and does nothing
\* else: no read, no resolver, no flush of the output queue, no change of
\* the task queue; when the flush fails nothing is written and the call
\* returns the UART error.
C25_WriteFrame ==
    callType = "write" =>
        /\ ops \in {<<>>, <<"flush(Input)">>, <<"flush(Input)", "write">>}
        /\ invoked = 0 /\ allRead = <<>> /\ lastOutcome = "none"
        /\ queue = <<>> /\ uartLock = NoTask
        /\ uartFailed => (rpc = "done" /\ rresult = "Uart")
        /\ (rpc = "done" /\ ~uartFailed) =>
              (ops = <<"flush(Input)", "write">> /\ rresult = "Ok")

\* A write call found bytes in the input queue, discarded them, wrote its
\* command and returned Ok.
C25_Witness ==
    /\ callType = "write" /\ rpc = "done" /\ rresult = "Ok"
    /\ dropped > 0
    /\ ops = <<"flush(Input)", "write">>

\* C29: a process call whose flush(Both) fails writes nothing, and one
\* whose write fails reads nothing; in both cases the resolver is never
\* invoked and the call returns the UART error.
C29_StopsAtFirstFailure ==
    callType = "process" =>
        /\ ops \in {<<>>, <<"flush(Both)">>, <<"flush(Both)", "write">>,
                    <<"flush(Both)", "write", "read">>}
        /\ uartFailed => (rpc = "done" /\ rresult = "Uart")
        /\ (uartFailed /\ Len(ops) <= 2) =>
              (invoked = 0 /\ allRead = <<>> /\ lastOutcome = "none")
        /\ invoked > 0 => Len(ops) = 3

\* The flush of a process call went through and its write failed.
C29_Witness ==
    /\ callType = "process" /\ uartFailed
    /\ ops = <<"flush(Both)", "write">>
    /\ rpc = "done" /\ rresult = "Uart"

\* get_incoming_call is one read call.
ReadCallers == KindCalls("get_incoming_call") = <<"read">>

\* C30: read neither flushes nor writes, it only polls; no byte that was in
\* the input queue before the call is discarded, and all of them have been
\* read when the resolver is invoked for the first time.  get_incoming_call
\* is made of one such call.
C30_ReadOnlyPolls ==
    /\ ReadCallers
    /\ callType = "read" =>
          /\ ops \in {<<>>, <<"read">>}
          /\ dropped = 0
          /\ invoked >= 1 => stale = 0

\* A read call was resolved by an acknowledgement that was in the input
\* queue before the call started.
C30_Witness ==
    /\ callType = "read" /\ rpc = "done" /\ rresult = "Ok"
    /\ staleRead /\ invoked = 1
    /\ read = ACK_REGEX
    /\ sent = Len(ACK_REGEX)

(***************************************************************************)
(* Hat::turn_on and the bearer and the session of an HTTP request          *)
(* (SpecFlow).                                                             *)
(***************************************************************************)
\* turn_on has ended: it has returned or it has panicked.
TurnOnEnded == flow = "turn_on" /\ fpc \in {"done", "panicked"}

HttpCommands == {"AT+HTTPINIT", "AT+HTTPPARA=CID,1", "AT+HTTPPARA=URL",
                 "AT+HTTPPARA=USERDATA", "AT+HTTPPARA=CONTENT", "AT+HTTPDATA",
                 "write body", "read", "AT+HTTPACTION", "AT+HTTPREAD",
                 "AT+HTTPTERM"}

\* The status probe of the request has returned; it is the second call,
\* after the guard terminate.
Probed == flow = "gprs_request" /\ Len(cmds) >= 2

\* What the status probe returned.
StatusOutcome == cmds[2].out

\* http::init returns before its first command.
InitFailsEarly == ~req.urlOk \/ (req.method = "GET" /\ ~req.dataOk)

FailedSteps ==
    {i \in 2..Len(cmds) : /\ cmds[i].cmd \notin {"AT+CGATT=0", "AT+HTTPTERM"}
                          /\ cmds[i].out.kind # "Ok"}

\* The final terminate of the request, if it was issued.
FinalTerminate == IssuedAt("AT+HTTPTERM") \ {1}

\* AT+HTTPINIT of this request was acknowledged.
InitAcknowledged ==
    \E i \in IssuedAt("AT+HTTPINIT") : cmds[i].out.kind = "Ok"

\* C33: once a step of the inner request has failed, the final AT+HTTPTERM
\* is not issued and the task sends nothing but the connection close, so a
\* session opened by AT+HTTPINIT stays open; it ends only with an
\* acknowledged AT+HTTPTERM, and the first one a later request issues is
\* its guard.  The final terminate follows an acknowledged AT+HTTPREAD, and
\* the inner request returns what the terminate returned, so its error
\* takes the place of the response.
C33_NoTerminateAfterFailure ==
    /\ [](flow = "gprs_request" =>
            /\ FailedSteps # {} =>
                  /\ FinalTerminate = {}
                  /\ fpc \in {"close", "done", "panicked"}
                  /\ \A i \in FailedSteps : \A j \in (i + 1)..Len(cmds) :
                        cmds[j].cmd = "AT+CGATT=0"
                  /\ InitAcknowledged => session
            /\ \A k \in FinalTerminate :
                  /\ cmds[k - 1] = [cmd |-> "AT+HTTPREAD", out |-> Ok(0)]
                  /\ inner = cmds[k].out.kind
                  /\ \A j \in (k + 1)..Len(cmds) : cmds[j].cmd = "AT+CGATT=0"
                  /\ (cmds[k].out.kind # "Ok" /\ fpc = "done") => fresult # "Ok")
    /\ [][(session /\ ~session') =>
            /\ Len(cmds') = Len(cmds) + 1
            /\ cmds'[Len(cmds')] = [cmd |-> "AT+HTTPTERM", out |-> Ok(0)]
            /\ cmds'[1].cmd = "AT+HTTPTERM"]_vars

\* AT+HTTPACTION failed in a session that AT+HTTPINIT had opened; the task
\* issued the connection close and ended, with no terminate after the guard
\* and the session still open.
C33_Witness ==
    /\ flow = "gprs_request" /\ fpc = "done"
    /\ InitAcknowledged /\ session
    /\ Len(cmds) >= 2
    /\ cmds[Len(cmds)].cmd = "AT+CGATT=0"
    /\ cmds[Len(cmds) - 1].cmd = "AT+HTTPACTION"
    /\ Len(cmds) - 1 \in FailedSteps
    /\ FinalTerminate = {}

(***************************************************************************)
(* The outcome of the HAT is_on task (SpecRead).                           *)
(***************************************************************************)
\* The call of hat::is_on: process with the resolver of is_on.
IsOnCall == callType = "process" /\ resolver = "is_on"

\* C34: the is_on task never yields Ok(false): it yields Ok(true) when the
\* reply to its command contains the OK terminator, and otherwise an error,
\* NotResolved after the timeout (also when the modem answered ERROR) or a
\* Uart error.
C34_IsOnOutcome ==
    (IsOnCall /\ rpc = "done") =>
        /\ rresult \in {"Ok", "NotResolved", "Uart"}
        /\ rresult = "Ok" => Apply("is_on", read) = Ok(1)
        /\ rresult = "NotResolved" => elapsed > timeout
        /\ rresult = "Uart" <=> uartFailed
        /\ (~uartFailed /\ ack_check(FromUtf8(allRead))) => rresult = "Ok"

====
